---- MODULE Spec2Model ----
(***************************************************************************)
(* Model of the review pipeline's job lifecycle and analysis runs:         *)
(*   - pr_agent/servers/job_manager.py : the job store (JOBS and its       *)
(*     operations),                                                        *)
(*   - pr_agent/servers/ide_router.py  : the router's own JOBS dictionary, *)
(*     the endpoints that create and cancel jobs, and the two background   *)
(*     runs process_repo_job and process_unified_analysis,                 *)
(*   - pr_agent/algo/orchestrator.py   : AnalysisOrchestrator,             *)
(*   - models/findings.py              : merge / dedup / summary.          *)
(***************************************************************************)
EXTENDS Integers, Sequences, FiniteSets, TLC

VARIABLES
    JOBS,          \* job_manager.JOBS : dict job_id -> job record
    now,           \* the clock read by datetime.now()
    RJOBS,         \* ide_router.JOBS (ide_router.py:266) : dict job_id -> job record
    fn,            \* the background run of the job: "none", "unified" or "repo"
    pc,            \* where that run is suspended
    orch,          \* locals of process_unified_analysis and AnalysisOrchestrator
    repo,          \* locals of process_repo_job
    workspace,     \* the job's temp_dir: "none", "present" or "removed"
    ncancel,       \* cancel requests received so far
    call           \* a call of a function of models/findings.py on its own:
                   \* the function, its argument and what it returned

storeVars == <<JOBS, now>>
runVars == <<RJOBS, fn, pc, orch, repo, workspace, ncancel>>
vars == <<JOBS, now, RJOBS, fn, pc, orch, repo, workspace, ncancel, call>>

(***************************************************************************)
(* Optional values: None is the empty tuple, a present value v is <<v>>.   *)
(***************************************************************************)
None == <<>>
Some(v) == <<v>>

(***************************************************************************)
(* Bounds of the model and the input alphabets.                            *)
(***************************************************************************)
MaxLogs == 2
MaxCount == 2
MaxTime == 1
MaxCancels == 1
MaxFiles == 1
MaxFindings == 2

StoreIds == {"j1"}
Statuses == {"pending", "processing", "completed", "failed", "cancelled"}
Terminal == {"completed", "failed", "cancelled"}
Messages == {"m1"}
Files == {"a.py"}
Results == {"r1", "r2"}
Errors == {"e1"}
OptFiles == {None} \cup {Some(f) : f \in Files}
OptCounts == {None} \cup {Some(n) : n \in 0..MaxCount}

(***************************************************************************)
(* Python dictionaries are functions; d[k] = v replaces or adds key k.     *)
(***************************************************************************)
EmptyDict == [k \in {} |-> 0]
DictSet(d, k, v) == [x \in (DOMAIN d) \cup {k} |-> IF x = k THEN v ELSE d[x]]

(***************************************************************************)
(* job_manager.py                                                          *)
(***************************************************************************)
CancelMsg == "Job Cancellation Requested by User."
CompleteMsg == "Job completed successfully."
FailMsg(error) == "Job failed: " \o error

\* datetime.isoformat() and datetime.fromisoformat().  A timestamp string is
\* the tuple of the instants its text spells out: isoformat writes exactly one,
\* the empty string is the empty tuple, and fromisoformat raises ValueError
\* (None here) on every other text.
IsoFormat(t) == <<t>>
FromIso(text) == IF Len(text) = 1 THEN Some(text[1]) ELSE None

\* The job record create_job builds (job_manager.py:54-66).
NewJob(t) ==
    [status |-> "pending",
     logs |-> <<>>,
     progress |-> [current_file |-> "", processed |-> 0, total |-> 0, percentage |-> 0],
     result |-> EmptyDict,
     created_at |-> IsoFormat(t),
     updated_at |-> IsoFormat(t)]

\* int((processed / total) * 100), for total > 0 (job_manager.py:160).  The float
\* product and the integer quotient agree for every processed < 23.
Percentage(processed, total) == (processed * 100) \div total

create_job(job_id) ==
    /\ JOBS' = DictSet(JOBS, job_id, NewJob(now))
    /\ UNCHANGED now

get_job(job_id) == IF job_id \in DOMAIN JOBS THEN Some(JOBS[job_id]) ELSE None

\* JOBS[job_id]["logs"].append(message); updated_at = now  (job_manager.py:119-120)
LogAppended(job, message, t) ==
    [job EXCEPT !.logs = Append(@, message), !.updated_at = IsoFormat(t)]

update_job_status(job_id, status) ==
    /\ UNCHANGED now
    /\ IF job_id \notin DOMAIN JOBS
       THEN UNCHANGED JOBS
       ELSE JOBS' = [JOBS EXCEPT ![job_id] = [@ EXCEPT !.status = status, !.updated_at = IsoFormat(now)]]

update_job_log(job_id, message) ==
    /\ UNCHANGED now
    /\ IF job_id \notin DOMAIN JOBS
       THEN UNCHANGED JOBS
       ELSE /\ Len(JOBS[job_id].logs) < MaxLogs
            /\ JOBS' = [JOBS EXCEPT ![job_id] = LogAppended(@, message, now)]

\* The progress dict after update_job_progress's assignments (job_manager.py:149-160).
ProgressUpdated(p, current_file, processed, total) ==
    LET p1 == IF current_file # None THEN [p EXCEPT !.current_file = current_file[1]] ELSE p
        p2 == IF processed # None THEN [p1 EXCEPT !.processed = processed[1]] ELSE p1
        p3 == IF total # None THEN [p2 EXCEPT !.total = total[1]] ELSE p2
    IN  IF p3.total > 0
        THEN [p3 EXCEPT !.percentage = Percentage(p3.processed, p3.total)]
        ELSE p3

update_job_progress(job_id, current_file, processed, total) ==
    /\ UNCHANGED now
    /\ IF job_id \notin DOMAIN JOBS
       THEN UNCHANGED JOBS
       ELSE JOBS' = [JOBS EXCEPT ![job_id] =
                [@ EXCEPT !.progress = ProgressUpdated(@, current_file, processed, total),
                          !.updated_at = IsoFormat(now)]]

update_job_result(job_id, result) ==
    /\ UNCHANGED now
    /\ IF job_id \notin DOMAIN JOBS
       THEN UNCHANGED JOBS
       ELSE JOBS' = [JOBS EXCEPT ![job_id] = [@ EXCEPT !.result = result, !.updated_at = IsoFormat(now)]]

cancel_job(job_id) ==
    /\ UNCHANGED now
    /\ IF job_id \notin DOMAIN JOBS
       THEN UNCHANGED JOBS
       ELSE /\ Len(JOBS[job_id].logs) < MaxLogs
            /\ JOBS' = [JOBS EXCEPT ![job_id] =
                    LogAppended([@ EXCEPT !.status = "cancelled"], CancelMsg, now)]

is_job_cancelled(job_id) ==
    job_id \in DOMAIN JOBS /\ JOBS[job_id].status = "cancelled"

complete_job(job_id, result) ==
    /\ UNCHANGED now
    /\ IF job_id \notin DOMAIN JOBS
       THEN UNCHANGED JOBS
       ELSE /\ Len(JOBS[job_id].logs) < MaxLogs
            /\ JOBS' = [JOBS EXCEPT ![job_id] =
                    LogAppended([@ EXCEPT !.status = "completed", !.result = result],
                                CompleteMsg, now)]

\* fail_job without its "if job_id not in JOBS" return: the record is made.
fail_job_upsert(job_id, error) ==
    /\ UNCHANGED now
    /\ JOBS' = DictSet(JOBS, job_id,
                LogAppended([NewJob(now) EXCEPT !.status = "failed",
                                                !.result = DictSet(@, "error", error)],
                            FailMsg(error), now))

fail_job(job_id, error) ==
    /\ UNCHANGED now
    /\ IF job_id \notin DOMAIN JOBS
       THEN UNCHANGED JOBS
       ELSE /\ Len(JOBS[job_id].logs) < MaxLogs
            /\ JOBS' = [JOBS EXCEPT ![job_id] =
                    LogAppended([@ EXCEPT !.status = "failed",
                                          !.result = DictSet(@, "error", error)],
                                FailMsg(error), now)]

\* A result dict an orchestrator hands to complete_job / update_job_result.
ResultDict(r) == [data |-> r]

StoreInit ==
    /\ JOBS = EmptyDict
    /\ now = 0

\* No function of models/findings.py is being called on its own.
NoCall == call = [fn |-> "none", args |-> <<>>, ret |-> <<>>]

\* No job has been submitted to the router.
RunIdle ==
    /\ RJOBS = EmptyDict
    /\ fn = "none"
    /\ pc = "idle"
    /\ orch = EmptyDict
    /\ repo = EmptyDict
    /\ workspace = "none"
    /\ ncancel = 0

Tick == now < MaxTime /\ now' = now + 1 /\ UNCHANGED <<JOBS, runVars, call>>
CreateJob == \E id \in StoreIds : create_job(id) /\ UNCHANGED <<runVars, call>>
SetStatus ==
    \E id \in StoreIds, s \in Statuses : update_job_status(id, s) /\ UNCHANGED <<runVars, call>>
AppendLog ==
    \E id \in StoreIds, m \in Messages : update_job_log(id, m) /\ UNCHANGED <<runVars, call>>
UpdateProgress ==
    \E id \in StoreIds, f \in OptFiles, p \in OptCounts, t \in OptCounts :
        update_job_progress(id, f, p, t) /\ UNCHANGED <<runVars, call>>
UpdateResult ==
    \E id \in StoreIds, r \in Results :
        update_job_result(id, ResultDict(r)) /\ UNCHANGED <<runVars, call>>
Cancel == \E id \in StoreIds : cancel_job(id) /\ UNCHANGED <<runVars, call>>
Complete ==
    \E id \in StoreIds, r \in Results : complete_job(id, ResultDict(r)) /\ UNCHANGED <<runVars, call>>
Fail == \E id \in StoreIds, e \in Errors : fail_job(id, e) /\ UNCHANGED <<runVars, call>>

StoreNext ==
    \/ Tick
    \/ CreateJob
    \/ SetStatus
    \/ AppendLog
    \/ UpdateProgress
    \/ UpdateResult
    \/ Cancel
    \/ Complete
    \/ Fail

InitStore == StoreInit /\ RunIdle /\ NoCall

SpecStore == InitStore /\ [][StoreNext]_vars


(***************************************************************************)
(* models/findings.py : strings are tuples of one-character strings.       *)
(***************************************************************************)
DedupPrefixLen == 50

\* str.lower() on the alphabet the titles are drawn from.
UpperLetters ==
    <<"A", "B", "C", "D", "E", "F", "G", "H", "I", "J", "K", "L", "M",
      "N", "O", "P", "Q", "R", "S", "T", "U", "V", "W", "X", "Y", "Z">>
LowerLetters ==
    <<"a", "b", "c", "d", "e", "f", "g", "h", "i", "j", "k", "l", "m",
      "n", "o", "p", "q", "r", "s", "t", "u", "v", "w", "x", "y", "z">>
LowerChar(c) ==
    IF \E i \in 1..Len(UpperLetters) : UpperLetters[i] = c
    THEN LowerLetters[CHOOSE i \in 1..Len(UpperLetters) : UpperLetters[i] = c]
    ELSE c
Lower(text) == [i \in 1..Len(text) |-> LowerChar(text[i])]

IsSpace(c) == c = " "
RECURSIVE LStrip(_)
LStrip(text) ==
    IF text # <<>> /\ IsSpace(Head(text)) THEN LStrip(Tail(text)) ELSE text
RECURSIVE RStrip(_)
RStrip(text) ==
    IF text # <<>> /\ IsSpace(text[Len(text)])
    THEN RStrip(SubSeq(text, 1, Len(text) - 1))
    ELSE text
Strip(text) == RStrip(LStrip(text))
Prefix(text, n) == SubSeq(text, 1, IF Len(text) < n THEN Len(text) ELSE n)

\* text.lower().strip()[:50]
normalize_for_dedup(text) == Prefix(Strip(Lower(text)), DedupPrefixLen)

\* (finding.file, finding.start_line, normalize_for_dedup(finding.title))
DedupKey(finding) ==
    <<finding.file, finding.start_line, normalize_for_dedup(finding.title)>>

GeneratedFix(original_code, fixed_code, explanation) ==
    [original_code |-> original_code, fixed_code |-> fixed_code,
     explanation |-> explanation, applicable |-> TRUE]

\* A UnifiedFinding; fix is None or Some(GeneratedFix), confidence is in percent.
UnifiedFinding(id, source, category, severity, file, line, title, fix, rule, confidence) ==
    [id |-> id, source |-> source, category |-> category, severity |-> severity,
     file |-> file, start_line |-> line, end_line |-> line, title |-> title,
     fix |-> fix, sonar_rule_id |-> rule, confidence |-> confidence,
     also_found_by |-> <<>>]

merge_findings(ai_findings, sonar_findings) == ai_findings \o sonar_findings

\* A raw issue may carry a JSON array where a path is expected; ai_to_unified
\* copies it into the finding (findings.py:310).  ListValue stands for such
\* a list: the key built from it cannot be hashed, and "key in seen"
\* (findings.py:395) raises TypeError.
ListValue == "['a.py', 'b.py']"
Hashable(finding) == finding.file # ListValue
DedupRaises(findings) == \E i \in 1..Len(findings) : ~Hashable(findings[i])

\* One iteration of deduplicate_findings' loop; seen is the dict's values in
\* insertion order (a replaced entry keeps its place).
\* No finding is ever recognised as a duplicate.
DedupStep_append(seen, finding) == Append(seen, finding)

\* A later finding of equal confidence replaces the one seen first.
DedupStep_latest(seen, finding) ==
    LET hits == {i \in 1..Len(seen) : DedupKey(seen[i]) = DedupKey(finding)}
    IN  IF hits # {}
        THEN LET i == CHOOSE h \in hits : TRUE
                 existing == seen[i]
             IN  IF finding.confidence >= existing.confidence
                 THEN [seen EXCEPT ![i] =
                        [finding EXCEPT
                           !.also_found_by = Append(@, existing.source),
                           !.fix = IF existing.fix # None /\ finding.fix = None
                                   THEN existing.fix ELSE @]]
                 ELSE [seen EXCEPT ![i] =
                        [existing EXCEPT
                           !.also_found_by = Append(@, finding.source),
                           !.fix = IF finding.fix # None /\ existing.fix = None
                                   THEN finding.fix ELSE @]]
        ELSE Append(seen, finding)

\* The fix of a replaced finding is not handed to the finding that replaces it.
DedupStep_fix_dropped(seen, finding) ==
    LET hits == {i \in 1..Len(seen) : DedupKey(seen[i]) = DedupKey(finding)}
    IN  IF hits # {}
        THEN LET i == CHOOSE h \in hits : TRUE
                 existing == seen[i]
             IN  IF finding.confidence > existing.confidence
                 THEN [seen EXCEPT ![i] =
                        [finding EXCEPT !.also_found_by = Append(@, existing.source)]]
                 ELSE [seen EXCEPT ![i] =
                        [existing EXCEPT
                           !.also_found_by = Append(@, finding.source),
                           !.fix = IF finding.fix # None /\ existing.fix = None
                                   THEN finding.fix ELSE @]]
        ELSE Append(seen, finding)

DedupStep(seen, finding) ==
    LET hits == {i \in 1..Len(seen) : DedupKey(seen[i]) = DedupKey(finding)}
    IN  IF hits # {}
        THEN LET i == CHOOSE h \in hits : TRUE
                 existing == seen[i]
             IN  IF finding.confidence > existing.confidence
                 THEN [seen EXCEPT ![i] =
                        [finding EXCEPT
                           !.also_found_by = Append(@, existing.source),
                           !.fix = IF existing.fix # None /\ finding.fix = None
                                   THEN existing.fix ELSE @]]
                 ELSE [seen EXCEPT ![i] =
                        [existing EXCEPT
                           !.also_found_by = Append(@, finding.source),
                           !.fix = IF finding.fix # None /\ existing.fix = None
                                   THEN finding.fix ELSE @]]
        ELSE Append(seen, finding)

RECURSIVE DedupFrom(_, _)
DedupFrom(seen, findings) ==
    IF findings = <<>> THEN seen
    ELSE DedupFrom(DedupStep(seen, Head(findings)), Tail(findings))

deduplicate_findings(findings) == DedupFrom(<<>>, findings)

\* Two high findings are already enough for a warning.
determine_quality_gate_two(findings) ==
    LET n == Len(findings)
        critical_count == Cardinality({i \in 1..n : findings[i].severity = "critical"})
        high_count == Cardinality({i \in 1..n : findings[i].severity = "high"})
        security_count == Cardinality({i \in 1..n : findings[i].category = "security"})
    IN  IF critical_count > 0 \/ security_count > 0 THEN "failed"
        ELSE IF high_count >= 2 THEN "warning"
        ELSE "passed"

determine_quality_gate(findings) ==
    LET n == Len(findings)
        critical_count == Cardinality({i \in 1..n : findings[i].severity = "critical"})
        high_count == Cardinality({i \in 1..n : findings[i].severity = "high"})
        security_count == Cardinality({i \in 1..n : findings[i].category = "security"})
    IN  IF critical_count > 0 \/ security_count > 0 THEN "failed"
        ELSE IF high_count > 2 THEN "warning"
        ELSE "passed"

\* by_severity holds a key for every severity, also those that do not occur.
create_summary_all_severities(findings) ==
    LET n == Len(findings)
    IN  [total |-> n,
         with_fix |-> Cardinality({i \in 1..n : findings[i].fix # None}),
         by_source |->
             [v \in {findings[i].source : i \in 1..n} |->
                 Cardinality({i \in 1..n : findings[i].source = v})],
         by_severity |->
             [v \in {"critical", "high", "medium", "low", "info"} |->
                 Cardinality({i \in 1..n : findings[i].severity = v})],
         by_category |->
             [v \in {findings[i].category : i \in 1..n} |->
                 Cardinality({i \in 1..n : findings[i].category = v})],
         quality_gate |-> determine_quality_gate(findings)]

\* The counting dicts by_source, by_severity, by_category hold one key per
\* value that occurs.
create_summary(findings) ==
    LET n == Len(findings)
    IN  [total |-> n,
         with_fix |-> Cardinality({i \in 1..n : findings[i].fix # None}),
         by_source |->
             [v \in {findings[i].source : i \in 1..n} |->
                 Cardinality({i \in 1..n : findings[i].source = v})],
         by_severity |->
             [v \in {findings[i].severity : i \in 1..n} |->
                 Cardinality({i \in 1..n : findings[i].severity = v})],
         by_category |->
             [v \in {findings[i].category : i \in 1..n} |->
                 Cardinality({i \in 1..n : findings[i].category = v})],
         quality_gate |-> determine_quality_gate(findings)]

AnalysisResult(findings, summary) == [findings |-> findings, summary |-> summary]


(***************************************************************************)
(* pr_agent/servers/ide_router.py : the router's JOBS and its helpers.     *)
(* The server is one asyncio event loop: a handler or a run executes       *)
(* without interruption from one await to the next, so every action below  *)
(* is the code between two suspension points.                              *)
(***************************************************************************)
JobId == "j1"

\* update_job_log (ide_router.py:268-272), as the new value of JOBS.
RLog(J, job_id, message) ==
    IF job_id \in DOMAIN J THEN [J EXCEPT ![job_id].logs = Append(@, message)] ELSE J

RECURSIVE RLogs(_, _, _)
RLogs(J, job_id, messages) ==
    IF messages = <<>> THEN J
    ELSE RLogs(RLog(J, job_id, Head(messages)), job_id, Tail(messages))

\* update_job_progress (ide_router.py:274-282): current_file is set when truthy.
RProgress(J, job_id, current_file, processed, total) ==
    IF job_id \notin DOMAIN J THEN J
    ELSE LET p == J[job_id].progress
             p1 == IF current_file # None /\ current_file[1] # ""
                   THEN DictSet(p, "current_file", current_file[1]) ELSE p
             p2 == IF processed # None THEN DictSet(p1, "processed", processed[1]) ELSE p1
             p3 == IF total # None THEN DictSet(p2, "total", total[1]) ELSE p2
             p4 == IF p3.total > 0
                   THEN DictSet(p3, "percentage", Percentage(p3.processed, p3.total))
                   ELSE p3
         IN  [J EXCEPT ![job_id].progress = p4]

\* JOBS[job_id][key] = value
RSet(J, job_id, key, value) == [J EXCEPT ![job_id] = DictSet(@, key, value)]

\* The two cancel routes (ide_router.py:284-290 and 1239-1245).
RCancelled(J, job_id, message) ==
    IF job_id \in DOMAIN J
    THEN RLog(RSet(J, job_id, "status", "cancelled"), job_id, message)
    ELSE J

cancel_job_route(message) ==
    /\ ncancel < MaxCancels
    /\ ncancel' = IF JobId \in DOMAIN RJOBS THEN ncancel + 1 ELSE ncancel
    /\ RJOBS' = RCancelled(RJOBS, JobId, message)
    /\ UNCHANGED <<fn, pc, orch, repo, workspace, storeVars, call>>

CancelJobV1 == cancel_job_route("Job Cancellation Requested by User.")
CancelJobV2 == cancel_job_route("User requested cancellation. Stopping...")

(***************************************************************************)
(* The analyzer outputs a run can receive.                                 *)
(***************************************************************************)
Seqs(S, n) == UNION {[1..k -> S] : k \in 0..n}

SomeFix == Some(GeneratedFix("old", "new", "why"))
FA1 == UnifiedFinding("ai-1", "pr_agent", "bug", "high", "a.py", 1,
                      <<"B", "u", "g">>, None, None, 75)
FA2 == UnifiedFinding("ai-2", "pr_agent", "logic", "medium", "a.py", 1,
                      <<"b", "u", "g", " ">>, SomeFix, None, 75)
FS1 == UnifiedFinding("sonar-1", "sonar", "security", "critical", "a.py", 1,
                      <<"b", "u", "g">>, None, Some("S1"), 95)
FS2 == UnifiedFinding("sonar-2", "sonar", "maintainability", "high", "b.py", 2,
                      <<"A">>, None, Some("S2"), 95)
FA3 == UnifiedFinding("ai-3", "pr_agent", "style", "low", "a.py", 3,
                      <<"A", " ", "b">>, SomeFix, None, 75)
FA4 == UnifiedFinding("ai-4", "pr_agent", "bug", "medium", ListValue, 1,
                      <<"A">>, None, None, 75)
AiFindings == {FA1, FA2, FA3}
SonarFindings == {FS1, FS2}
AiOutputs == Seqs(AiFindings, MaxFindings)
SonarOutputs == Seqs(SonarFindings, MaxFindings)

(***************************************************************************)
(* analyze_unified (ide_router.py:1252-1325).                              *)
(***************************************************************************)
UnifiedJob ==
    [status |-> "pending",
     logs |-> <<"Job initialized">>,
     progress |-> [current_file |-> "", processed |-> 0, total |-> 0, percentage |-> 0],
     result |-> None,
     analysis_type |-> "unified"]

analyze_unified(upload_ok, start_ok) ==
    /\ pc = "idle"
    /\ fn' = "unified"
    /\ IF ~upload_ok
       THEN \* the upload could not be persisted: no job, temp_dir removed
            /\ RJOBS' = RJOBS
            /\ workspace' = "removed"
            /\ pc' = "rejected"
       ELSE IF ~start_ok
       THEN \* the background task could not be started
            /\ RJOBS' = RSet(RSet(DictSet(RJOBS, JobId, UnifiedJob),
                                  JobId, "status", "failed"),
                             JobId, "result", Some([error |-> "start failed"]))
            /\ workspace' = "present"
            /\ pc' = "unscheduled"
       ELSE /\ RJOBS' = DictSet(RJOBS, JobId, UnifiedJob)
            /\ workspace' = "present"
            /\ pc' = "scheduled"
    /\ UNCHANGED <<orch, repo, ncancel, storeVars, call>>

(***************************************************************************)
(* process_unified_analysis (ide_router.py:1328-1434) driving              *)
(* AnalysisOrchestrator.analyze (orchestrator.py:69-127).                  *)
(***************************************************************************)
GraphLimit == 10

OrchInit(n) ==
    [n_files |-> n,            \* len(changed_files)
     graph_i |-> 0,            \* files whose code graph has been requested
     code_graph |-> {},        \* indices of the files whose graph was built
     ai_task |-> "none", sonar_task |-> "none",
     ai_outcome |-> "none", sonar_outcome |-> "none",
     ai_result |-> <<>>, sonar_result |-> <<>>,
     ai_findings |-> <<>>, sonar_findings |-> <<>>,
     unique_findings |-> <<>>,
     has_fix |-> <<>>, needs_fix |-> <<>>, fix_i |-> 0,
     raised |-> FALSE,         \* analyze raised instead of returning
     result |-> None]

Min(a, b) == IF a < b THEN a ELSE b

\* Only the semantic task created before the first await.
TasksCreated_serial(o) == [o EXCEPT !.ai_task = "running"]

\* asyncio.create_task for both branches (orchestrator.py:181-186).
TasksCreated(o) == [o EXCEPT !.ai_task = "running", !.sonar_task = "running"]

\* The result dict process_unified_analysis stores (ide_router.py:1419-1424).
StoredResult(result) ==
    [findings |-> result.findings,
     summary |-> result.summary,
     quality_gate |-> result.summary.quality_gate]

\* ide_router.py:1407-1426: progress, the summary log lines, result, completed.
UnifiedCompleted(J, n, result) ==
    LET J1 == [J EXCEPT ![JobId].progress =
                  DictSet(DictSet(@, "processed", n), "percentage", 100)]
        J2 == RLogs(J1, JobId,
                  <<"Analysis complete: " \o ToString(result.summary.total) \o " issues found",
                    "  - By source", "  - By severity",
                    "  - Quality gate: " \o result.summary.quality_gate>>)
        J3 == RSet(J2, JobId, "result", Some(StoredResult(result)))
        J4 == RSet(J3, JobId, "status", "completed")
    IN  RLog(J4, JobId, "Unified analysis completed successfully")

\* ide_router.py:1428-1432: the handler of an exception of the run.
UnifiedFailed(J, e) ==
    RLog(RSet(RSet(J, JobId, "status", "failed"),
              JobId, "result", Some([error |-> e])),
         JobId, "Analysis failed: " \o e)

\* The result process_unified_analysis builds when analyze raised
\* (ide_router.py:1391-1405).
OrchestratorFailed(orch_err) ==
    AnalysisResult(<<>>,
                   [total |-> 0, by_source |-> EmptyDict, by_severity |-> EmptyDict,
                    quality_gate |-> "ERROR", error |-> orch_err])

\* orchestrator.py:106-127 once both branches are joined, up to the first
\* fix-generation call (or to the end when no finding lacks a fix); an
\* exception of deduplicate_findings leaves analyze and is handled by the run.
Merged(o) ==
    LET all_findings == merge_findings(o.ai_findings, o.sonar_findings)
        unique == deduplicate_findings(all_findings)
        needs == SelectSeq(unique, LAMBDA f : f.fix = None)
        has == SelectSeq(unique, LAMBDA f : f.fix # None)
    IN  IF DedupRaises(all_findings)
        THEN [o EXCEPT !.raised = TRUE,
                       !.result = Some(OrchestratorFailed("unhashable type: 'list'"))]
        ELSE [o EXCEPT !.unique_findings = unique, !.needs_fix = needs, !.has_fix = has,
                       !.fix_i = 0,
                       !.result = IF needs = <<>>
                                  THEN Some(AnalysisResult(unique, create_summary(unique)))
                                  ELSE None]

\* The run after the orchestrator state became o: it completes the job when
\* analyze has returned, and is suspended in the fix pass otherwise.
AfterAnalysis(o) ==
    /\ orch' = o
    /\ IF o.result # None
       THEN /\ RJOBS' = UnifiedCompleted(RJOBS, o.n_files, o.result[1])
            /\ workspace' = "removed"
            /\ pc' = "done"
       ELSE /\ RJOBS' = RJOBS
            /\ workspace' = workspace
            /\ pc' = "fixes"

PU_Start(extract_ok, n) ==
    /\ fn = "unified" /\ pc = "scheduled"
    /\ LET J1 == RLogs(RSet(RJOBS, JobId, "status", "processing"), JobId,
                       <<"Starting unified analysis (AI + Sonar parallel)",
                         "Extracting repository...">>)
       IN  IF ~extract_ok
           THEN /\ RJOBS' = UnifiedFailed(J1, "bad zip")
                /\ workspace' = "removed"
                /\ pc' = "done"
                /\ orch' = OrchInit(0)
           ELSE /\ RJOBS' = RLog([RLog(J1, JobId, "Found " \o ToString(n) \o " files to analyze")
                                     EXCEPT ![JobId].progress = DictSet(@, "total", n)],
                                 JobId, "Running parallel analysis (AI review + Sonar scan)...")
                /\ workspace' = workspace
                /\ IF n > 0
                   THEN pc' = "graph" /\ orch' = [OrchInit(n) EXCEPT !.graph_i = 1]
                   ELSE pc' = "await_ai" /\ orch' = TasksCreated(OrchInit(n))
    /\ UNCHANGED <<fn, repo, ncancel, storeVars, call>>

\* _build_code_graph: one run_in_executor call returns or raises
\* (orchestrator.py:144-155).
BuildGraph(ok) ==
    /\ fn = "unified" /\ pc = "graph"
    /\ LET o1 == IF ok THEN [orch EXCEPT !.code_graph = @ \cup {orch.graph_i}] ELSE orch
       IN  IF orch.graph_i < Min(orch.n_files, GraphLimit)
           THEN pc' = "graph" /\ orch' = [o1 EXCEPT !.graph_i = @ + 1]
           ELSE pc' = "await_ai" /\ orch' = TasksCreated(o1)
    /\ UNCHANGED <<RJOBS, fn, repo, workspace, ncancel, storeVars, call>>

\* _run_ai_review returns: the converted findings, or [] after an exception
\* it caught (orchestrator.py:220-251).
AiReturns(outcome, findings) ==
    /\ fn = "unified" /\ pc \in {"await_ai", "await_sonar"}
    /\ orch.ai_task = "running"
    /\ outcome = "exception" => findings = <<>>
    /\ orch' = [orch EXCEPT !.ai_task = "done", !.ai_outcome = outcome,
                            !.ai_result = findings]
    /\ UNCHANGED <<RJOBS, fn, pc, repo, workspace, ncancel, storeVars, call>>

\* _run_sonar_scan returns: the converted findings, or [] after a non-200
\* answer or an exception it caught (orchestrator.py:344-386).
SonarReturns(outcome, findings) ==
    /\ fn = "unified" /\ pc \in {"await_ai", "await_sonar"}
    /\ orch.sonar_task = "running"
    /\ outcome = "exception" => findings = <<>>
    /\ orch' = [orch EXCEPT !.sonar_task = "done", !.sonar_outcome = outcome,
                            !.sonar_result = findings]
    /\ UNCHANGED <<RJOBS, fn, pc, repo, workspace, ncancel, storeVars, call>>

\* await asyncio.wait_for(ai_task, ...) returns the task's result
\* (orchestrator.py:193).
JoinAi ==
    /\ fn = "unified" /\ pc = "await_ai"
    /\ orch.ai_task = "done"
    /\ orch' = [orch EXCEPT !.ai_findings = orch.ai_result]
    /\ pc' = "await_sonar"
    /\ UNCHANGED <<RJOBS, fn, repo, workspace, ncancel, storeVars, call>>

\* The semantic branch's TimeoutError left uncaught: the run fails.
AiTimeout_uncaught ==
    /\ fn = "unified" /\ pc = "await_ai"
    /\ orch.ai_task = "running"
    /\ orch' = [orch EXCEPT !.ai_task = "cancelled", !.ai_outcome = "timeout"]
    /\ RJOBS' = UnifiedFailed(RJOBS, "TimeoutError")
    /\ workspace' = "removed"
    /\ pc' = "done"
    /\ UNCHANGED <<fn, repo, ncancel, storeVars, call>>

\* wait_for's timeout expires first: the task is cancelled and ai_findings
\* stays [] (orchestrator.py:194-195).
AiTimeout ==
    /\ fn = "unified" /\ pc = "await_ai"
    /\ orch.ai_task = "running"
    /\ orch' = [orch EXCEPT !.ai_task = "cancelled", !.ai_outcome = "timeout"]
    /\ pc' = "await_sonar"
    /\ UNCHANGED <<RJOBS, fn, repo, workspace, ncancel, storeVars, call>>

\* await asyncio.wait_for(sonar_task, ...) returns (orchestrator.py:200), then
\* analyze merges, deduplicates and starts the fix pass.
JoinSonar ==
    /\ fn = "unified" /\ pc = "await_sonar"
    /\ orch.sonar_task = "done"
    /\ AfterAnalysis(Merged([orch EXCEPT !.sonar_findings = orch.sonar_result]))
    /\ UNCHANGED <<fn, repo, ncancel, storeVars, call>>

\* The static branch's TimeoutError left uncaught: the run fails.
SonarTimeout_uncaught ==
    /\ fn = "unified" /\ pc = "await_sonar"
    /\ orch.sonar_task = "running"
    /\ orch' = [orch EXCEPT !.sonar_task = "cancelled", !.sonar_outcome = "timeout"]
    /\ RJOBS' = UnifiedFailed(RJOBS, "TimeoutError")
    /\ workspace' = "removed"
    /\ pc' = "done"
    /\ UNCHANGED <<fn, repo, ncancel, storeVars, call>>

\* wait_for's timeout expires on the static branch (orchestrator.py:201-202).
SonarTimeout ==
    /\ fn = "unified" /\ pc = "await_sonar"
    /\ orch.sonar_task = "running"
    /\ AfterAnalysis(Merged([orch EXCEPT !.sonar_task = "cancelled",
                                         !.sonar_outcome = "timeout"]))
    /\ UNCHANGED <<fn, repo, ncancel, storeVars, call>>

\* A call that gives no fix ends the pass: the findings after it are not tried.
GenerateFix_abort(fix) ==
    /\ fn = "unified" /\ pc = "fixes"
    /\ LET i == orch.fix_i + 1
           o1 == [orch EXCEPT !.fix_i = i,
                              !.needs_fix[i].fix = IF fix # None THEN fix ELSE @]
           with_fixes == o1.has_fix \o o1.needs_fix
       IN  AfterAnalysis(
               IF i = Len(orch.needs_fix) \/ fix = None
               THEN [o1 EXCEPT !.result =
                        Some(AnalysisResult(with_fixes, create_summary(with_fixes)))]
               ELSE o1)
    /\ UNCHANGED <<fn, repo, ncancel, storeVars, call>>

\* GenerateFix with "return needs_fix" for "return has_fix + needs_fix".
GenerateFix_needs_only(fix) ==
    /\ fn = "unified" /\ pc = "fixes"
    /\ LET i == orch.fix_i + 1
           o1 == [orch EXCEPT !.fix_i = i,
                              !.needs_fix[i].fix = IF fix # None THEN fix ELSE @]
           with_fixes == o1.needs_fix
       IN  AfterAnalysis(
               IF i = Len(orch.needs_fix)
               THEN [o1 EXCEPT !.result =
                        Some(AnalysisResult(with_fixes, create_summary(with_fixes)))]
               ELSE o1)
    /\ UNCHANGED <<fn, repo, ncancel, storeVars, call>>

\* One _generate_fix call returns a fix or None (orchestrator.py:424-430); after
\* the last one analyze returns has_fix + needs_fix with its summary.
GenerateFix(fix) ==
    /\ fn = "unified" /\ pc = "fixes"
    /\ LET i == orch.fix_i + 1
           o1 == [orch EXCEPT !.fix_i = i,
                              !.needs_fix[i].fix = IF fix # None THEN fix ELSE @]
           with_fixes == o1.has_fix \o o1.needs_fix
       IN  AfterAnalysis(
               IF i = Len(orch.needs_fix)
               THEN [o1 EXCEPT !.result =
                        Some(AnalysisResult(with_fixes, create_summary(with_fixes)))]
               ELSE o1)
    /\ UNCHANGED <<fn, repo, ncancel, storeVars, call>>


(***************************************************************************)
(* review_repo_async (ide_router.py:1182-1229) and the inputs of a         *)
(* repository review.                                                      *)
(***************************************************************************)
MaxIssues == 1

RepoFiles == {"a.py", "b.js", "c.md"}

\* git_diff as the form field delivers it: empty, an error marker (truthy,
\* but no "diff --git" header in it), or a diff naming its files.
NoDiff == [kind |-> "empty", files |-> <<>>]
ErrDiff == [kind |-> "error", files |-> <<>>]
Diff(files) == [kind |-> "diff", files |-> files]
GitDiffs == {NoDiff, ErrDiff, Diff(<<"a.py">>), Diff(<<"c.md", "b.js">>)}

\* What the archive extracts to: the files the workspace index resolves, and
\* those of them that open(...).read() cannot decode.
Workspaces ==
    {[files |-> {}, unreadable |-> {}],
     [files |-> RepoFiles, unreadable |-> {}],
     [files |-> {"a.py", "b.js"}, unreadable |-> {"a.py"}]}

\* An issue of the Sonar payload or of the Stage A review: the file it names
\* ("" when no filename key is present) and whether the secret-redaction
\* patterns of _apply_secret_fallback_fix match it.
Issue(source, file, redactable) ==
    [source |-> source, file |-> file, redactable |-> redactable]
SonarIssues == {Issue("sonar", "a.py", FALSE), Issue("sonar", "b.js", TRUE),
                Issue("sonar", "", FALSE)}
SonarReports == Seqs(SonarIssues, MaxIssues)
StageAIssue == Issue("ai_review", "", FALSE)
LlmOutcomes == {"fixed", "nofix", "unparseable", "error", "rate_limit"}
StageAOutcomes == {"issue", "none", "unparseable", "exception"}

RepoJob ==
    [status |-> "pending",
     logs |-> <<"Job Queued...">>,
     progress |-> [current_file |-> "Uploading...", processed |-> 0, total |-> 0],
     result |-> None]

review_repo_async(git_log, git_diff, force_review, background_tasks) ==
    /\ pc = "idle"
    /\ fn' = "repo"
    /\ workspace' = "present"
    /\ LET J1 == RLog(DictSet(RJOBS, JobId, RepoJob), JobId, "ZIP received")
       IN  IF background_tasks
           THEN /\ RJOBS' = RLog(J1, JobId, "Background task scheduled")
                /\ pc' = "scheduled"
           ELSE /\ RJOBS' = J1
                /\ pc' = "unscheduled"
    /\ repo' = [git_log |-> git_log, git_diff |-> git_diff, force_review |-> force_review]
    /\ UNCHANGED <<orch, ncancel, storeVars, call>>

(***************************************************************************)
(* process_repo_job (ide_router.py:607-1180).  A configuration             *)
(* [J, r, pc] is the job table, the locals of the run and the suspension   *)
(* point the run has reached; the operators below run the code from one    *)
(* await to the next.                                                      *)
(***************************************************************************)
FileLimit == 20

RepoLocals(args, ai_handler) ==
    [git_log |-> args.git_log, git_diff |-> args.git_diff,
     force_review |-> args.force_review,
     ai_handler |-> ai_handler,
     files |-> {}, unreadable |-> {}, total_files_in_workspace |-> 0,
     sonar_findings |-> FALSE,      \* the findings text is non-empty
     sonar_report_raw |-> <<>>,
     pr_walkthrough |-> "",
     fixes |-> <<>>, limit_reached |-> FALSE, summary_lines |-> <<>>,
     files_to_issues |-> <<>>,      \* the dict, in insertion order
     changed_files_from_diff |-> <<>>,
     total_files |-> 0, processed_count |-> 0,
     file_i |-> 0, issue_i |-> 0,   \* positions of the two loops
     file_fix_applied |-> FALSE, redacted |-> FALSE,
     llm_task |-> "none", llm_outcome |-> "none"]

Config(J, r, p) == [J |-> J, r |-> r, pc |-> p]

\* The run moves to configuration c; leaving the function passes through
\* finally: shutil.rmtree(temp_dir) (ide_router.py:1179-1180).
Apply(c) ==
    /\ RJOBS' = c.J
    /\ repo' = c.r
    /\ pc' = c.pc
    /\ workspace' = IF c.pc = "done" THEN "removed" ELSE workspace

\* return inside the try block
Returned(J, r) == Config(J, r, "done")

\* ide_router.py:1176-1178
RepoFailed(J, r, e) ==
    Config(RLog(RSet(J, JobId, "status", "failed"), JobId, "Job Failed: " \o e), r, "done")

\* ide_router.py:1157-1174
RepoResult(r) ==
    [review |-> r.summary_lines, fixes |-> r.fixes,
     sonar_raw |-> r.sonar_findings, sonar_data |-> r.sonar_report_raw,
     pr_walkthrough |-> r.pr_walkthrough, limit_reached |-> r.limit_reached]

Finish(J, r) ==
    Config(RLog(RSet(RSet(J, JobId, "result", Some(RepoResult(r))),
                     JobId, "status", "completed"),
                JobId, "Analysis Completed Successfully."),
           r, "done")

NonCode(filename) == filename \in {"c.md"}
IsJs(filename) == filename \in {"b.js"}
InSeq(x, s) == \E i \in 1..Len(s) : s[i] = x

\* files_to_issues.setdefault(issue_file, []).append(issue) (ide_router.py:750-752)
AddIssue(queue, issue_file, issue) ==
    IF \E i \in 1..Len(queue) : queue[i].filename = issue_file
    THEN [i \in 1..Len(queue) |->
             IF queue[i].filename = issue_file
             THEN [queue[i] EXCEPT !.issues = Append(@, issue)]
             ELSE queue[i]]
    ELSE Append(queue, [filename |-> issue_file, issues |-> <<issue>>])

\* ide_router.py:747-754 from the k-th issue of the report on; c is [J, q].
RECURSIVE GroupIssues(_, _, _)
GroupIssues(c, report, k) ==
    IF k > Len(report) THEN c
    ELSE IF report[k].file # ""
    THEN GroupIssues([c EXCEPT !.q = AddIssue(@, report[k].file, report[k])], report, k + 1)
    ELSE GroupIssues([c EXCEPT !.J = RLog(@, JobId, "[Trace] Issue missing filename keys")],
                     report, k + 1)

\* ide_router.py:773-775 and 789-791
RECURSIVE AddFiles(_, _, _)
AddFiles(queue, files, k) ==
    IF k > Len(files) THEN queue
    ELSE AddFiles(IF \E i \in 1..Len(queue) : queue[i].filename = files[k]
                  THEN queue
                  ELSE Append(queue, [filename |-> files[k], issues |-> <<>>]),
                  files, k + 1)

\* The code files os.walk offers the force-review fallback (ide_router.py:781-788).
Candidates(files) ==
    SelectSeq(<<"a.py", "b.js">>, LAMBDA f : f \in files)

RECURSIVE LoopHead(_, _, _)
RECURSIVE IssueLoop(_, _, _)

\* except Exception of one file (ide_router.py:1121-1152)
FileError(J, r, kind) ==
    IF kind = "rate_limit"
    THEN Finish(RLog(J, JobId, "LLM API Limit Reached. Stopping."),
                [r EXCEPT !.limit_reached = TRUE])
    ELSE LoopHead(RLog(J, JobId, "Error processing " \o r.files_to_issues[r.file_i].filename),
                  r, r.file_i + 1)

\* The file loop from its i-th iteration to the next await (ide_router.py:798-880).
\* The checks of lines 826 and 831 follow the one of line 799 without an
\* await in between and cannot find another status.
LoopHead(J, r, i) ==
    IF i > Len(r.files_to_issues) THEN Finish(J, r)
    ELSE IF J[JobId].status = "cancelled" THEN Returned(J, r)
    ELSE IF r.processed_count >= FileLimit THEN Finish(J, r)
    ELSE LET filename == r.files_to_issues[i].filename
         IN  IF filename \notin r.files
             THEN LoopHead(RLog(J, JobId, "[Trace] Skip unresolved file: " \o filename), r, i + 1)
             ELSE IF NonCode(filename)
             THEN LoopHead(RLogs(J, JobId, <<"[Trace] Resolved " \o filename,
                                             "Skipping non-code file: " \o filename>>),
                           r, i + 1)
             ELSE LET J1 == RLogs(J, JobId,
                                <<"[Trace] Resolved " \o filename,
                                  "AI Fixing (" \o ToString(r.processed_count + 1) \o "/"
                                      \o ToString(r.total_files) \o "): " \o filename \o "...">>)
                      J2 == RLog(RProgress(J1, JobId, Some(filename),
                                           Some(r.processed_count + 1), Some(r.total_files)),
                                 JobId, "Reading file: " \o filename)
                      r1 == [r EXCEPT !.file_i = i, !.issue_i = 0,
                                      !.file_fix_applied = FALSE, !.redacted = FALSE]
                  IN  IF filename \in r.unreadable THEN FileError(J2, r1, "error")
                      ELSE IF InSeq(filename, r.changed_files_from_diff)
                      THEN Config(RLogs(J2, JobId, <<"Running Stage A (Review) on " \o filename \o "...",
                                                     "Analyzing Changes (Stage A)...">>),
                                  r1, "stage_a")
                      ELSE IssueLoop(J2, r1, 1)

\* The issue loop of the current file from its k-th iteration to the next
\* await (ide_router.py:906-1003), then the end of the file (1104-1119).
IssueLoop(J, r, k) ==
    LET filename == r.files_to_issues[r.file_i].filename
        file_issues == r.files_to_issues[r.file_i].issues
    IN  IF k > Len(file_issues)
        THEN LoopHead(J,
                 [r EXCEPT !.processed_count = @ + 1,
                           !.fixes = IF r.file_fix_applied THEN Append(@, filename) ELSE @,
                           !.summary_lines = IF r.file_fix_applied
                                             THEN Append(@, "- Fixed issues in " \o filename)
                                             ELSE @],
                 r.file_i + 1)
        ELSE IF J[JobId].status = "cancelled" THEN Returned(J, r)
        ELSE LET J1 == RLog(J, JobId, "  -> Fixing issue " \o ToString(k))
             IN  IF file_issues[k].redactable /\ IsJs(filename) /\ ~r.redacted
                 THEN IssueLoop(RLog(J1, JobId, "  + Applied deterministic secret redaction fallback."),
                                [r EXCEPT !.file_fix_applied = TRUE, !.redacted = TRUE], k + 1)
                 ELSE Config(J1, [r EXCEPT !.issue_i = k, !.llm_task = "running",
                                           !.llm_outcome = "none"], "llm")

\* ide_router.py:744-797: the queue of files, then the loop.
Review(J, r) ==
    LET grouped == IF r.sonar_findings
                   THEN GroupIssues([J |-> J, q |-> <<>>], r.sonar_report_raw, 1)
                   ELSE [J |-> J, q |-> <<>>]
        total_files == Min(Len(grouped.q), FileLimit)
        J1 == RProgress(grouped.J, JobId, Some("Starting..."), Some(0), Some(total_files))
        J2 == IF r.git_diff.kind # "empty"
              THEN RLogs(J1, JobId, <<"[Debug] Git Diff Length", "[Debug] Files in Diff">>)
              ELSE J1
        q1 == AddFiles(grouped.q, r.git_diff.files, 1)
        fallback == r.force_review /\ q1 = <<>>
        J3 == IF fallback THEN RLog(J2, JobId, "Force review: scanning top files") ELSE J2
        q2 == IF fallback THEN AddFiles(q1, Candidates(r.files), 1) ELSE q1
    IN  LoopHead(RLog(J3, JobId, "[Debug] Final Queue"),
                 [r EXCEPT !.files_to_issues = q2, !.total_files = total_files,
                           !.changed_files_from_diff = r.git_diff.files],
                 1)

\* ide_router.py:720-744 and 1153-1155; reinit is the outcome of the second
\* LiteLLMAIHandler() when the first one failed.
AfterWalkthrough(J, r, reinit) ==
    LET J1 == RLog(J, JobId, IF r.sonar_findings THEN "Starting AI Analysis (Fixing Findings)"
                             ELSE "Starting AI Analysis (General Review)")
        J2 == IF r.ai_handler THEN J1
              ELSE RLog(J1, JobId, "AI Handler is missing. Attempting re-init...")
        r1 == [r EXCEPT !.ai_handler = @ \/ reinit]
    IN  IF ~r1.ai_handler
        THEN Returned(RSet(RSet(RLog(J2, JobId, "AI handler unavailable"),
                                JobId, "status", "failed"),
                           JobId, "error", "AI handler unavailable"),
                      r1)
        ELSE IF r1.sonar_findings \/ r1.git_diff.kind # "empty" \/ r1.force_review
        THEN Review(J2, r1)
        ELSE Finish(RLog(J2, JobId, "No issues to fix."),
                    [r1 EXCEPT !.summary_lines = Append(@, "No SonarQube issues found to fix.")])

\* ide_router.py:684-710
AfterSonar(J, r, reinit) ==
    IF (r.git_log \/ r.git_diff.kind = "diff") /\ r.ai_handler
    THEN Config(RLog(J, JobId, "Generating PR Walkthrough..."), r, "walkthrough")
    ELSE AfterWalkthrough(J, r, reinit)

\* ide_router.py:608-645, up to await asyncio.to_thread(_setup_workspace_sync).
\* The checks of lines 640 and 642 follow line 608 without an await.
PR_Start(handler_ok) ==
    /\ fn = "repo" /\ pc = "scheduled"
    /\ LET J1 == RSet(RSet(RJOBS, JobId, "status", "processing"), JobId, "progress",
                      [current_file |-> "Initializing...", processed |-> 0,
                       total |-> 0, percentage |-> 0])
           J2 == RLogs(J1, JobId,
                   <<"Job Started. Extracting Workspace...",
                     "Initializing AI Handler...",
                     IF handler_ok THEN "AI Handler Initialized." ELSE "AI Handler Init Failed",
                     IF repo.git_log THEN "Received Git Log" ELSE "No Git Log received",
                     IF repo.git_diff.kind = "diff" THEN "Received Git Diff"
                     ELSE "No Git Diff received; continuing security scan">>
                   \o IF repo.force_review THEN <<"Force review enabled (full scan)">> ELSE <<>>)
       IN  Apply(Config(J2, RepoLocals(repo, handler_ok), "setup"))
    /\ UNCHANGED <<fn, orch, ncancel, storeVars, call>>

\* _setup_workspace_sync returns the file count (the archive included) or
\* raises (ide_router.py:645-651).
SetupWorkspace(ok, ws) ==
    /\ fn = "repo" /\ pc = "setup"
    /\ IF ~ok
       THEN Apply(RepoFailed(RJOBS, repo, "bad zip"))
       ELSE LET n == Cardinality(ws.files) + 1
            IN  Apply(Config(RLog(RProgress(RJOBS, JobId, Some("Scanning..."), None, Some(n)),
                                  JobId, "Scanning " \o ToString(n) \o " files..."),
                             [repo EXCEPT !.files = ws.files, !.unreadable = ws.unreadable,
                                          !.total_files_in_workspace = n],
                             "git"))
    /\ UNCHANGED <<fn, orch, ncancel, storeVars, call>>

\* _git_init_sync returns (ide_router.py:651-668); enabled is the setting
\* sonarqube.enabled.
GitInit(enabled, reinit) ==
    /\ fn = "repo" /\ pc = "git"
    /\ LET J1 == RLogs(RJOBS, JobId,
                   <<"[Trace] Workspace index ready: " \o ToString(Cardinality(repo.files)) \o " files",
                     "Scanning " \o ToString(repo.total_files_in_workspace)
                         \o " files for Vulnerabilities...">>)
       IN  IF enabled
           THEN Apply(Config(RLog(J1, JobId, "Sending to Sonar Service..."), repo, "sonar"))
           ELSE Apply(AfterSonar(J1, repo, reinit))
    /\ UNCHANGED <<fn, orch, ncancel, storeVars, call>>

\* scan_via_microservice returns a report or raises (ide_router.py:668-682).
SonarScan(ok, report, reinit) ==
    /\ fn = "repo" /\ pc = "sonar"
    /\ IF ~ok
       THEN Apply(AfterSonar(RLog(RJOBS, JobId, "Sonar Analysis Failed"), repo, reinit))
       ELSE IF report # <<>>
       THEN Apply(AfterSonar(RLog(RJOBS, JobId, "Found " \o ToString(Len(report)) \o " issues/hotspots."),
                             [repo EXCEPT !.sonar_report_raw = report, !.sonar_findings = TRUE],
                             reinit))
       ELSE Apply(AfterSonar(RLog(RJOBS, JobId, "No static analysis issues found."), repo, reinit))
    /\ UNCHANGED <<fn, orch, ncancel, storeVars, call>>

\* The walkthrough completion returns or raises (ide_router.py:710-718); the
\* handler exists here, so no re-initialisation follows.
Walkthrough(ok) ==
    /\ fn = "repo" /\ pc = "walkthrough"
    /\ IF ok
       THEN Apply(AfterWalkthrough(RLog(RJOBS, JobId, "PR Walkthrough Generated."),
                                   [repo EXCEPT !.pr_walkthrough = "generated"], TRUE))
       ELSE Apply(AfterWalkthrough(RJOBS, [repo EXCEPT !.pr_walkthrough = "fallback"], TRUE))
    /\ UNCHANGED <<fn, orch, ncancel, storeVars, call>>

\* The Stage A completion returns or raises (ide_router.py:881-897).
StageA(outcome) ==
    /\ fn = "repo" /\ pc = "stage_a"
    /\ LET J1 == IF outcome = "exception" THEN RJOBS
                 ELSE RLog(RJOBS, JobId, "[AI RAW DEBUG]")
       IN  IF outcome = "issue"
           THEN Apply(IssueLoop(RLog(J1, JobId, "  + [Stage A] Found Issue"),
                                [repo EXCEPT !.files_to_issues[repo.file_i].issues =
                                                 Append(@, StageAIssue)],
                                1))
           ELSE Apply(IssueLoop(J1, repo, 1))
    /\ UNCHANGED <<fn, orch, ncancel, storeVars, call>>

\* The completion task of one issue finishes (ide_router.py:991-995).
LlmTaskDone(outcome) ==
    /\ fn = "repo" /\ pc = "llm"
    /\ repo.llm_task = "running"
    /\ repo' = [repo EXCEPT !.llm_task = "done", !.llm_outcome = outcome]
    /\ UNCHANGED <<RJOBS, fn, pc, orch, workspace, ncancel, storeVars, call>>

\* asyncio.sleep(1) returns while the task is not done; the loop acts only
\* when the job is cancelled (ide_router.py:998-1003).
LlmPollCancelled ==
    /\ fn = "repo" /\ pc = "llm"
    /\ repo.llm_task = "running"
    /\ RJOBS[JobId].status = "cancelled"
    /\ Apply(Returned(RJOBS, [repo EXCEPT !.llm_task = "cancelled"]))
    /\ UNCHANGED <<fn, orch, ncancel, storeVars, call>>

\* asyncio.sleep(1) returns and the task is done: its result is awaited and
\* applied, or its exception reaches the handler of the file
\* (ide_router.py:998, 1005-1102).
LlmPollDone ==
    /\ fn = "repo" /\ pc = "llm"
    /\ repo.llm_task = "done"
    /\ LET k == repo.issue_i
           r1 == [repo EXCEPT !.llm_task = "none"]
       IN  CASE repo.llm_outcome = "fixed" ->
                    Apply(IssueLoop(RJOBS, [r1 EXCEPT !.file_fix_applied = TRUE], k + 1))
             [] repo.llm_outcome = "nofix" ->
                    Apply(IssueLoop(RLog(RJOBS, JobId, "AI did not provide a valid fix structure."),
                                    r1, k + 1))
             [] repo.llm_outcome = "unparseable" ->
                    Apply(IssueLoop(RLog(RJOBS, JobId, "Failed to parse AI response"), r1, k + 1))
             [] OTHER -> Apply(FileError(RJOBS, r1, repo.llm_outcome))
    /\ UNCHANGED <<fn, orch, ncancel, storeVars, call>>


(***************************************************************************)
(* The router serving one unified analysis: its endpoints and the run.      *)
(***************************************************************************)
BackfilledFix == Some(GeneratedFix("snippet", "patched", "generated"))

AnalyzeUnified == \E upload_ok \in BOOLEAN, start_ok \in BOOLEAN : analyze_unified(upload_ok, start_ok)
PUStart == \E extract_ok \in BOOLEAN, n \in 0..MaxFiles : PU_Start(extract_ok, n)
BuildGraphStep == \E ok \in BOOLEAN : BuildGraph(ok)
AiReturnsFindings == \E fs \in AiOutputs : AiReturns("ok", fs)
AiReturnsAfterError == AiReturns("exception", <<>>)
AiReturnsMalformed == \E fs \in AiOutputs : AiReturns("malformed", Append(fs, FA4))
SonarReturnsFindings == \E fs \in SonarOutputs : SonarReturns("ok", fs)
SonarReturnsAfterError == SonarReturns("exception", <<>>)
GenerateFixStep == \E fix \in {None, BackfilledFix} : GenerateFix(fix)
ReviewRepoAsync ==
    \E git_log \in BOOLEAN, git_diff \in GitDiffs, force_review \in BOOLEAN,
       background_tasks \in BOOLEAN :
        review_repo_async(git_log, git_diff, force_review, background_tasks)
PRStart == \E handler_ok \in BOOLEAN : PR_Start(handler_ok)
SetupWorkspaceReturns == \E ws \in Workspaces : SetupWorkspace(TRUE, ws)
SetupWorkspaceRaises == SetupWorkspace(FALSE, [files |-> {}, unreadable |-> {}])
GitInitReturns == \E enabled \in BOOLEAN, reinit \in BOOLEAN : GitInit(enabled, reinit)
SonarScanReturns == \E report \in SonarReports, reinit \in BOOLEAN : SonarScan(TRUE, report, reinit)
SonarScanRaises == \E reinit \in BOOLEAN : SonarScan(FALSE, <<>>, reinit)
WalkthroughStep == \E ok \in BOOLEAN : Walkthrough(ok)
StageAStep == \E outcome \in StageAOutcomes : StageA(outcome)
LlmTaskDoneStep == \E outcome \in LlmOutcomes : LlmTaskDone(outcome)

RunNext ==
    \/ AnalyzeUnified
    \/ CancelJobV1
    \/ CancelJobV2
    \/ PUStart
    \/ BuildGraphStep
    \/ AiReturnsFindings
    \/ AiReturnsAfterError
    \/ AiReturnsMalformed
    \/ AiTimeout
    \/ JoinAi
    \/ SonarReturnsFindings
    \/ SonarReturnsAfterError
    \/ SonarTimeout
    \/ JoinSonar
    \/ GenerateFixStep

InitRun == StoreInit /\ RunIdle /\ NoCall

SpecRun == InitRun /\ [][RunNext]_vars

\* The repository review: its endpoints and process_repo_job.
RepoNext ==
    \/ CancelJobV1
    \/ CancelJobV2
    \/ ReviewRepoAsync
    \/ PRStart
    \/ SetupWorkspaceReturns
    \/ SetupWorkspaceRaises
    \/ GitInitReturns
    \/ SonarScanReturns
    \/ SonarScanRaises
    \/ WalkthroughStep
    \/ StageAStep
    \/ LlmTaskDoneStep
    \/ LlmPollCancelled
    \/ LlmPollDone

InitRepo == StoreInit /\ RunIdle /\ NoCall

SpecRepo == InitRepo /\ [][RepoNext]_vars

\* The steps of process_repo_job: once the task is scheduled the event loop
\* runs it, and every call it awaits returns or raises.
RepoRun ==
    \/ PRStart
    \/ SetupWorkspaceReturns
    \/ SetupWorkspaceRaises
    \/ GitInitReturns
    \/ SonarScanReturns
    \/ SonarScanRaises
    \/ WalkthroughStep
    \/ StageAStep
    \/ LlmTaskDoneStep
    \/ LlmPollCancelled
    \/ LlmPollDone

InitRepoLive == StoreInit /\ RunIdle /\ NoCall

SpecRepoLive == InitRepoLive /\ [][RepoNext]_vars /\ WF_vars(RepoRun)

(***************************************************************************)
(* The functions of models/findings.py called on their own, on every list  *)
(* of at most MaxInput distinct findings.  Five of the findings share the  *)
(* dedup key ("a.py", 1, "bug") and three of them come from the semantic   *)
(* reviewer, whose confidence is the one the reviewer reports              *)
(* (findings.py:318).                                                      *)
(***************************************************************************)
MaxInput == 3

OtherFix == Some(GeneratedFix("old", "newer", "because"))
FS3 == UnifiedFinding("sonar-3", "sonar", "bug", "high", "a.py", 1,
                      <<"B", "U", "G">>, None, Some("S3"), 95)
FA5 == UnifiedFinding("ai-5", "pr_agent", "bug", "high", "a.py", 1,
                      <<" ", "b", "u", "g">>, None, None, 97)
FA6 == UnifiedFinding("ai-6", "pr_agent", "performance", "medium", "a.py", 1,
                      <<"b", "u", "g">>, OtherFix, None, 99)
Findings == {FA1, FA2, FA3, FA5, FA6, FS1, FS2, FS3}

Distinct(seq) == \A i, j \in 1..Len(seq) : seq[i] = seq[j] => i = j
FindingLists == {fs \in Seqs(Findings, MaxInput) : Distinct(fs)}

InitCall ==
    /\ StoreInit /\ RunIdle
    /\ call \in {[fn |-> "none", args |-> fs, ret |-> <<>>] : fs \in FindingLists}

Returns(function, value) ==
    /\ call.fn = "none"
    /\ call' = [call EXCEPT !.fn = function, !.ret = <<value>>]
    /\ UNCHANGED <<storeVars, runVars>>

Deduplicate == Returns("deduplicate_findings", deduplicate_findings(call.args))
QualityGate == Returns("determine_quality_gate", determine_quality_gate(call.args))
Summarize == Returns("create_summary", create_summary(call.args))

CallNext ==
    \/ Deduplicate
    \/ QualityGate
    \/ Summarize

SpecCall == InitCall /\ [][CallNext]_vars

(***************************************************************************)
(* The normalizers of models/findings.py.  A raw issue is a dict: a        *)
(* function from the keys it has to their values.  Texts that are sliced   *)
(* or lowercased are tuples of characters; a component is the tuple of its *)
(* ':'-separated parts; a JSON value of another type than the code expects *)
(* is one of the marked values below.                                      *)
(***************************************************************************)
MaxBatch == 2
TitleLimit == 100

Get(dict, key, default) == IF key \in DOMAIN dict THEN dict[key] ELSE default
Without(dict, keys) == [k \in DOMAIN dict \ keys |-> dict[k]]

RECURSIVE Join(_)
Join(text) == IF text = <<>> THEN "" ELSE Head(text) \o Join(Tail(text))

\* hashlib.md5(text).hexdigest()[:12]: equal texts give equal digests.
Md5(text) == "md5(" \o text \o ")"

\* A JSON number where a text is expected: slicing it raises TypeError.
JsonNumber == <<"<number>">>
\* A JSON array where a component is expected: it has no ':' part to strip.
JsonArray == <<ListValue>>

\* A security hotspot is not counted as a security finding.
SONAR_TYPE_MAP_hotspot(sonar_type) ==
    CASE sonar_type = "BUG" -> "bug"
      [] sonar_type = "VULNERABILITY" -> "security"
      [] sonar_type = "CODE_SMELL" -> "maintainability"
      [] OTHER -> "bug"

SONAR_TYPE_MAP(sonar_type) ==
    CASE sonar_type = "BUG" -> "bug"
      [] sonar_type = "VULNERABILITY" -> "security"
      [] sonar_type = "SECURITY_HOTSPOT" -> "security"
      [] sonar_type = "CODE_SMELL" -> "maintainability"
      [] OTHER -> "bug"

SONAR_SEVERITY_MAP(sonar_severity) ==
    CASE sonar_severity = "BLOCKER" -> "critical"
      [] sonar_severity = "CRITICAL" -> "critical"
      [] sonar_severity = "MAJOR" -> "high"
      [] sonar_severity = "MINOR" -> "medium"
      [] sonar_severity = "INFO" -> "low"
      [] OTHER -> "medium"

\* sonar_to_unified on the dict sonar_response_to_unified builds.
sonar_to_unified(sonar_issue) ==
    LET rule_id == Get(sonar_issue, "rule_id", Get(sonar_issue, "rule", "unknown"))
        line == Get(sonar_issue, "line", Get(sonar_issue, "start_line", 1))
        finding_id == Md5("sonar-" \o rule_id \o "-" \o Get(sonar_issue, "file", "unknown")
                              \o "-" \o ToString(line))
        sonar_type == Get(sonar_issue, "type", "CODE_SMELL")
        sonar_severity == Get(sonar_issue, "severity", "MAJOR")
    IN  UnifiedFinding("sonar-" \o finding_id, "sonar",
                       SONAR_TYPE_MAP(sonar_type), SONAR_SEVERITY_MAP(sonar_severity),
                       Get(sonar_issue, "file", ""), line,
                       Prefix(Get(sonar_issue, "message", <<>>), TitleLimit),
                       None, Some(rule_id), 95)

\* The dict of findings.py:235-245: the keys of the scanner's format, and the
\* component without what precedes its last ':'.
SonarNormalized(issue) ==
    LET component == Get(issue, "component", Get(issue, "file", <<"">>))
    IN  [rule_id |-> Get(issue, "rule", Get(issue, "rule_id", "unknown")),
         line |-> Get(issue, "line", 1),
         file |-> component[Len(component)],
         message |-> Get(issue, "message", <<>>),
         severity |-> Get(issue, "severity", "MAJOR"),
         type |-> Get(issue, "type", Get(issue, "issue_type", "CODE_SMELL"))]

\* The conversions of an issue that raise inside the try of findings.py:232.
SonarRaises(issue) == Get(issue, "message", <<>>) = JsonNumber

RECURSIVE sonar_response_to_unified(_)
sonar_response_to_unified(issues) ==
    IF issues = <<>> THEN <<>>
    ELSE IF SonarRaises(Head(issues))
         THEN sonar_response_to_unified(Tail(issues))
         ELSE <<sonar_to_unified(SonarNormalized(Head(issues)))>>
                 \o sonar_response_to_unified(Tail(issues))

SonarTypes == {"BUG", "VULNERABILITY", "SECURITY_HOTSPOT", "CODE_SMELL", "OTHER"}
SonarSeverities == {"BLOCKER", "CRITICAL", "MAJOR", "MINOR", "INFO", "OTHER"}
Components == {<<"proj", "src/a.py">>, <<"src/a.py">>}

SonarIssue(rule, severity, component, line, message, type) ==
    [rule |-> rule, severity |-> severity, component |-> component, line |-> line,
     message |-> message, type |-> type]

\* Every issue of the scanner's format, with and without type and severity.
RawSonarIssues ==
    {Without(SonarIssue("S6334", sev, comp, 10, <<"s", "e", "c", "r", "e", "t">>, ty), absent) :
        sev \in SonarSeverities, ty \in SonarTypes, comp \in Components,
        absent \in SUBSET {"type", "severity"}}

\* The issues batches are made of: two well-formed issues of one rule on one
\* line with different messages, an issue whose message is a number, and an
\* issue whose component is an array.
SI1 == SonarIssue("S1481", "MINOR", <<"proj", "src/a.py">>, 10, <<"x">>, "CODE_SMELL")
SI2 == SonarIssue("S1481", "MINOR", <<"proj", "src/a.py">>, 10, <<"y">>, "CODE_SMELL")
SI3 == SonarIssue("S100", "MAJOR", <<"proj", "src/a.py">>, 11, JsonNumber, "BUG")
SI4 == SonarIssue("S100", "MAJOR", JsonArray, 12, <<"z">>, "BUG")
SonarBatches == {<<i>> : i \in RawSonarIssues} \cup Seqs({SI1, SI2, SI3, SI4}, MaxBatch)

AI_TYPE_MAP(ai_type) ==
    CASE ai_type \in {"bug", "error", "possible_bug", "possible_issue"} -> "bug"
      [] ai_type \in {"logic", "logical_error"} -> "logic"
      [] ai_type = "security" -> "security"
      [] ai_type = "style" -> "style"
      [] ai_type = "performance" -> "performance"
      [] OTHER -> "bug"

FindingSeverity == {"critical", "high", "medium", "low", "info"}

\* str.replace(' ', '_')
Underscored(text) == [i \in 1..Len(text) |-> IF text[i] = " " THEN "_" ELSE text[i]]

\* The confidence of an issue in percent; 0.75 when the issue has none.
DefaultConfidence == 75

ai_to_unified(ai_issue) ==
    LET content_hash == Md5(Get(ai_issue, "file", "") \o "-"
                              \o ToString(Get(ai_issue, "start_line", 0)) \o "-"
                              \o Join(Get(ai_issue, "title", <<>>)))
        ai_type == Join(Underscored(Lower(
                       Get(ai_issue, "type", Get(ai_issue, "issue_header", <<"i", "s", "s", "u", "e">>)))))
        lowered == Join(Lower(Get(ai_issue, "severity", <<"m", "e", "d", "i", "u", "m">>)))
        severity_str == IF lowered \in FindingSeverity THEN lowered ELSE "medium"
        fix == IF Get(ai_issue, "suggestion", "") # "" \/ Get(ai_issue, "fixed_code", "") # ""
               THEN Some(GeneratedFix(
                        Get(ai_issue, "original_code", Get(ai_issue, "code_snippet", "")),
                        Get(ai_issue, "fixed_code", Get(ai_issue, "suggestion", "")),
                        Get(ai_issue, "explanation", Get(ai_issue, "description", ""))))
               ELSE None
    IN  UnifiedFinding("ai-" \o content_hash, "pr_agent",
                       AI_TYPE_MAP(ai_type), severity_str,
                       Get(ai_issue, "file", Get(ai_issue, "relevant_file", "")),
                       Get(ai_issue, "start_line", Get(ai_issue, "line", 1)),
                       Prefix(Get(ai_issue, "title",
                                  Get(ai_issue, "issue_header", <<"I", "s", "s", "u", "e", " ", "d", "e", "t", "e", "c", "t", "e", "d">>)), TitleLimit),
                       fix, None, Get(ai_issue, "confidence", DefaultConfidence))

\* The conversions of an issue that raise inside the try of findings.py:344.
AiRaises(issue) == Get(issue, "title", Get(issue, "issue_header", <<>>)) = JsonNumber

RECURSIVE ai_response_to_unified(_)
ai_response_to_unified(issues) ==
    IF issues = <<>> THEN <<>>
    ELSE IF AiRaises(Head(issues))
         THEN ai_response_to_unified(Tail(issues))
         ELSE <<ai_to_unified(Head(issues))>> \o ai_response_to_unified(Tail(issues))

AiTypes == {<<"S", "e", "c", "u", "r", "i", "t", "y">>, <<"p", "o", "s", "s", "i", "b", "l", "e", " ", "b", "u", "g">>, <<"t", "y", "p", "o">>}
AiSeverities == {<<"H", "I", "G", "H">>, <<"c", "r", "i", "t", "i", "c", "a", "l">>, <<"u", "r", "g", "e", "n", "t">>}

AiIssue(file, start_line, title, type, severity) ==
    [file |-> file, start_line |-> start_line, title |-> title, type |-> type,
     severity |-> severity]

\* Every issue of the reviewer's "issues" format, with and without type and
\* severity.
RawAiIssues ==
    {Without(AiIssue("a.py", 5, <<"A">>, ty, sev), absent) :
        ty \in AiTypes, sev \in AiSeverities, absent \in SUBSET {"type", "severity"}}

\* The issues batches are made of: two issues of the "key_issues_to_review"
\* format on one line of two files, an issue whose title is a number, and an
\* issue whose file is an array.
AI1 == [relevant_file |-> "a.py", issue_header |-> <<"P", "o", "s", "s", "i", "b", "l", "e", " ", "B", "u", "g">>, start_line |-> 5,
        suggestion |-> "use x"]
AI2 == [relevant_file |-> "b.py", issue_header |-> <<"S", "e", "c", "u", "r", "i", "t", "y">>, start_line |-> 5]
AI3 == AiIssue("a.py", 6, JsonNumber, <<"b", "u", "g">>, <<"l", "o", "w">>)
AI4 == AiIssue(ListValue, 7, <<"A">>, <<"b", "u", "g">>, <<"l", "o", "w">>)
\* An issue of the "issues" format with a suggestion and an empty fixed_code.
AI5 == [file |-> "a.py", start_line |-> 8, title |-> <<"A">>,
        suggestion |-> "use x", fixed_code |-> ""]
AiBatches == {<<i>> : i \in RawAiIssues} \cup Seqs({AI1, AI2, AI3, AI4, AI5}, MaxBatch)

\* A call of a normalizer: args holds the analyzer and the raw issues.
NormalizerCalls ==
    {[fn |-> "none", args |-> [analyzer |-> "sonar", issues |-> b], ret |-> <<>>] :
        b \in SonarBatches}
    \cup {[fn |-> "none", args |-> [analyzer |-> "pr_agent", issues |-> b], ret |-> <<>>] :
        b \in AiBatches}

InitNormalize ==
    /\ StoreInit /\ RunIdle
    /\ call \in NormalizerCalls

NormalizeSonar ==
    /\ call.fn = "none" /\ call.args.analyzer = "sonar"
    /\ call' = [call EXCEPT !.fn = "sonar_response_to_unified",
                            !.ret = <<sonar_response_to_unified(call.args.issues)>>]
    /\ UNCHANGED <<storeVars, runVars>>

NormalizeAi ==
    /\ call.fn = "none" /\ call.args.analyzer = "pr_agent"
    /\ call' = [call EXCEPT !.fn = "ai_response_to_unified",
                            !.ret = <<ai_response_to_unified(call.args.issues)>>]
    /\ UNCHANGED <<storeVars, runVars>>

NormalizeNext ==
    \/ NormalizeSonar
    \/ NormalizeAi

SpecNormalize == InitNormalize /\ [][NormalizeNext]_vars

(***************************************************************************)
(* The job store with several jobs in it, each operation called on its own *)
(* (job_manager.py and the routes of ide_router.py that read or cancel a   *)
(* job).  The jobs the store holds are records the operations above build; *)
(* two more stand for a record whose created_at was removed or overwritten *)
(* through the reference get_job hands out.                                *)
(***************************************************************************)
JobIds == {"j1", "j2"}
UnknownId == "j3"

\* The bool every updating function of job_manager.py returns.
Found(job_id) == job_id \in DOMAIN JOBS

\* cleanup_old_jobs (job_manager.py:272-283): the ids collected in to_remove.
cutoff(max_age_hours) == now - max_age_hours

\* to_remove with "created <= cutoff" for "created < cutoff".
to_remove_inclusive(max_age_hours) ==
    {job_id \in DOMAIN JOBS :
        LET created_str == Get(JOBS[job_id], "created_at", <<>>)
            created == FromIso(created_str)
        IN  /\ created_str # <<>>
            /\ created # None
            /\ created[1] <= cutoff(max_age_hours)}

to_remove(max_age_hours) ==
    {job_id \in DOMAIN JOBS :
        LET created_str == Get(JOBS[job_id], "created_at", <<>>)
            created == FromIso(created_str)
        IN  /\ created_str # <<>>
            /\ created # None
            /\ created[1] < cutoff(max_age_hours)}

\* cleanup_old_jobs (job_manager.py:285-286): del JOBS[job_id] for each of them.
cleanup_old_jobs(max_age_hours) ==
    /\ JOBS' = [job_id \in (DOMAIN JOBS) \ to_remove(max_age_hours) |-> JOBS[job_id]]
    /\ UNCHANGED now

\* get_job_status (ide_router.py:1231-1237).
get_job_status(job_id) ==
    IF job_id \notin DOMAIN RJOBS THEN [status |-> "not_found"] ELSE RJOBS[job_id]

\* What the two cancel routes return (ide_router.py:284-290 and 1239-1245).
CancelRouteReturns(job_id) ==
    IF job_id \in DOMAIN RJOBS THEN [status |-> "cancelled"] ELSE [status |-> "not_found"]

\* The records a job of the store can be, created at time t.
Processing(job, t) == [job EXCEPT !.status = "processing", !.updated_at = IsoFormat(t)]
Completed(job, t) ==
    LogAppended([job EXCEPT !.status = "completed", !.result = ResultDict("r1")],
                CompleteMsg, t)
Undated(job) == Without(job, {"created_at"})
Misdated(job) == [job EXCEPT !.created_at = <<0, 0>>]

JobRecords(t) ==
    {NewJob(c) : c \in 0..t}
    \cup {Processing(NewJob(c), t) : c \in 0..t}
    \cup {Completed(NewJob(c), t) : c \in 0..t}
    \cup {Undated(NewJob(0)), Misdated(Processing(NewJob(0), t))}

Stores(t) == UNION {[ids -> JobRecords(t)] : ids \in SUBSET JobIds}
RouterStores == {EmptyDict, [id \in {JobId} |-> UnifiedJob]}

\* The calls: args names the operation and holds its arguments.
KeyedOps ==
    {"get_job", "update_job_status", "update_job_log", "update_job_progress",
     "update_job_result", "cancel_job", "is_job_cancelled", "complete_job", "fail_job"}
RouteOps == {"get_job_status", "cancel_job_v1", "cancel_job_v2"}

StoreCalls ==
    {[op |-> o, job_id |-> id] : o \in KeyedOps \cup RouteOps, id \in JobIds \cup {UnknownId}}
    \cup {[op |-> "cleanup_old_jobs", max_age_hours |-> h] : h \in 0..MaxTime}

InitJobs ==
    /\ now \in 0..MaxTime
    /\ JOBS \in Stores(now)
    /\ RJOBS \in RouterStores
    /\ fn = "none" /\ pc = "idle" /\ orch = EmptyDict /\ repo = EmptyDict
    /\ workspace = "none" /\ ncancel = 0
    /\ call \in {[fn |-> "none", args |-> a, ret |-> <<>>] : a \in StoreCalls}

\* The operation named o is called and returns value.
Called(o, value) ==
    /\ call.fn = "none" /\ call.args.op = o
    /\ call' = [call EXCEPT !.fn = o, !.ret = <<value>>]
    /\ UNCHANGED <<fn, pc, orch, repo, workspace, ncancel>>

GetJob ==
    /\ Called("get_job", get_job(call.args.job_id))
    /\ UNCHANGED <<storeVars, RJOBS>>
UpdateJobStatus ==
    /\ Called("update_job_status", Found(call.args.job_id))
    /\ update_job_status(call.args.job_id, "processing")
    /\ UNCHANGED RJOBS
UpdateJobLog ==
    /\ Called("update_job_log", Found(call.args.job_id))
    /\ update_job_log(call.args.job_id, "m1")
    /\ UNCHANGED RJOBS
UpdateJobProgress ==
    /\ Called("update_job_progress", Found(call.args.job_id))
    /\ update_job_progress(call.args.job_id, Some("a.py"), Some(1), Some(2))
    /\ UNCHANGED RJOBS
UpdateJobResult ==
    /\ Called("update_job_result", Found(call.args.job_id))
    /\ update_job_result(call.args.job_id, ResultDict("r2"))
    /\ UNCHANGED RJOBS
CancelJob ==
    /\ Called("cancel_job", Found(call.args.job_id))
    /\ cancel_job(call.args.job_id)
    /\ UNCHANGED RJOBS
IsJobCancelled ==
    /\ Called("is_job_cancelled", is_job_cancelled(call.args.job_id))
    /\ UNCHANGED <<storeVars, RJOBS>>
CompleteJob ==
    /\ Called("complete_job", Found(call.args.job_id))
    /\ complete_job(call.args.job_id, ResultDict("r2"))
    /\ UNCHANGED RJOBS
FailJob ==
    /\ Called("fail_job", Found(call.args.job_id))
    /\ fail_job(call.args.job_id, "e1")
    /\ UNCHANGED RJOBS
CleanupOldJobs ==
    /\ Called("cleanup_old_jobs", Cardinality(to_remove(call.args.max_age_hours)))
    /\ cleanup_old_jobs(call.args.max_age_hours)
    /\ UNCHANGED RJOBS
GetJobStatus ==
    /\ Called("get_job_status", get_job_status(call.args.job_id))
    /\ UNCHANGED <<storeVars, RJOBS>>
CancelRouteV1 ==
    /\ Called("cancel_job_v1", CancelRouteReturns(call.args.job_id))
    /\ RJOBS' = RCancelled(RJOBS, call.args.job_id, "Job Cancellation Requested by User.")
    /\ UNCHANGED storeVars
CancelRouteV2 ==
    /\ Called("cancel_job_v2", CancelRouteReturns(call.args.job_id))
    /\ RJOBS' = RCancelled(RJOBS, call.args.job_id, "User requested cancellation. Stopping...")
    /\ UNCHANGED storeVars

JobsNext ==
    \/ GetJob
    \/ UpdateJobStatus
    \/ UpdateJobLog
    \/ UpdateJobProgress
    \/ UpdateJobResult
    \/ CancelJob
    \/ IsJobCancelled
    \/ CompleteJob
    \/ FailJob
    \/ CleanupOldJobs
    \/ GetJobStatus
    \/ CancelRouteV1
    \/ CancelRouteV2

SpecJobs == InitJobs /\ [][JobsNext]_vars

(***************************************************************************)
(* _run_parallel_analysis with its clock (orchestrator.py:167-206 and      *)
(* 337-393).  now counts seconds.  Both tasks are created at the same      *)
(* instant; the orchestrator then awaits wait_for(ai_task, 180), and only  *)
(* when that has returned or timed out, wait_for(sonar_task, 120).  The    *)
(* static task zips the workspace without yielding to the event loop and   *)
(* then posts the archive under aiohttp.ClientTimeout(total=120); that     *)
(* timeout is raised inside the task, whose except clause turns it into an *)
(* empty result.  A timer that is due fires before the clock moves on.     *)
(***************************************************************************)
SONAR_TIMEOUT_SECONDS == 120
AI_REVIEW_TIMEOUT_SECONDS == 180
MaxZip == 2
MaxClock == 310

\* create_task twice, then the first wait_for arms its timer; the static task
\* zips for zip seconds before its request starts.
Launch(zip) ==
    /\ fn = "none" /\ pc = "idle"
    /\ fn' = "parallel"
    /\ pc' = "await_ai"
    /\ now' = now + zip
    /\ orch' = [launched |-> now,
                ai_task |-> "running", sonar_task |-> "running",
                wait_deadline |-> now + AI_REVIEW_TIMEOUT_SECONDS,
                post_deadline |-> now + zip + SONAR_TIMEOUT_SECONDS,
                errors |-> {}]
    /\ UNCHANGED <<JOBS, RJOBS, repo, workspace, ncancel, call>>

\* The timers that are armed and due.
WaitDue == fn = "parallel" /\ pc \in {"await_ai", "await_sonar"} /\ now >= orch.wait_deadline
PostDue == fn = "parallel" /\ orch.sonar_task = "running" /\ now >= orch.post_deadline

ClockTick ==
    /\ fn = "parallel" /\ pc # "joined"
    /\ now < MaxClock
    /\ ~WaitDue
    /\ ~PostDue
    /\ now' = now + 1
    /\ UNCHANGED <<JOBS, runVars, call>>

\* The step of a task of the parallel analysis.
TaskStep(o) ==
    /\ fn = "parallel"
    /\ orch' = o
    /\ UNCHANGED <<JOBS, now, RJOBS, fn, pc, repo, workspace, ncancel, call>>

\* _run_ai_review returns (its own except clause returns [] on any error).
AiTaskEnds ==
    /\ fn = "parallel" /\ orch.ai_task = "running"
    /\ TaskStep([orch EXCEPT !.ai_task = "done"])

\* The scanner answers, or the request's total timeout is raised in the task
\* and caught at orchestrator.py:384.
SonarResponse ==
    /\ fn = "parallel" /\ orch.sonar_task = "running"
    /\ TaskStep([orch EXCEPT !.sonar_task = "done"])
PostTimeout ==
    /\ PostDue
    /\ TaskStep([orch EXCEPT !.sonar_task = "done",
                             !.errors = @ \cup {"Sonar scan error: "}])

\* The orchestrator moves from the first wait_for to the second, which arms
\* its timer at this instant.
SecondWait(o) ==
    /\ pc' = "await_sonar"
    /\ orch' = [o EXCEPT !.wait_deadline = now + SONAR_TIMEOUT_SECONDS]
    /\ UNCHANGED <<JOBS, now, RJOBS, fn, repo, workspace, ncancel, call>>

AiWaitReturns ==
    /\ fn = "parallel" /\ pc = "await_ai" /\ orch.ai_task = "done"
    /\ SecondWait(orch)
AiWaitExpires ==
    /\ WaitDue /\ pc = "await_ai" /\ orch.ai_task = "running"
    /\ SecondWait([orch EXCEPT !.ai_task = "cancelled",
                               !.errors = @ \cup {"[Orchestrator] AI review timed out"}])

Joined(o) ==
    /\ pc' = "joined"
    /\ orch' = o
    /\ UNCHANGED <<JOBS, now, RJOBS, fn, repo, workspace, ncancel, call>>

SonarWaitReturns ==
    /\ fn = "parallel" /\ pc = "await_sonar" /\ orch.sonar_task = "done"
    /\ Joined(orch)
SonarWaitExpires ==
    /\ WaitDue /\ pc = "await_sonar" /\ orch.sonar_task = "running"
    /\ Joined([orch EXCEPT !.sonar_task = "cancelled",
                           !.errors = @ \cup {"[Orchestrator] Sonar scan timed out"}])

LaunchTasks == \E zip \in 0..MaxZip : Launch(zip)

WaitNext ==
    \/ LaunchTasks
    \/ ClockTick
    \/ AiTaskEnds
    \/ SonarResponse
    \/ PostTimeout
    \/ AiWaitReturns
    \/ AiWaitExpires
    \/ SonarWaitReturns
    \/ SonarWaitExpires

InitWait == StoreInit /\ RunIdle /\ NoCall

SpecWait == InitWait /\ [][WaitNext]_vars

(***************************************************************************)
(* Claims about the job store (job_manager.py), checked under SpecStore.   *)
(***************************************************************************)
Rank(status) ==
    CASE status = "pending" -> 0
      [] status = "processing" -> 1
      [] OTHER -> 2

Kept(id) == id \in DOMAIN JOBS /\ id \in DOMAIN JOBS'

\* C3: a job holds at most one terminal status over its lifetime: once its
\* status is completed, failed or cancelled, no step of the store gives it a
\* different one of the three (so a cancelled job stays cancelled under a
\* later Complete or Fail).
C3_OneTerminalStatus ==
    [][\A id \in StoreIds :
         (Kept(id) /\ JOBS[id].status \in Terminal /\ JOBS'[id].status \in Terminal)
            => JOBS'[id].status = JOBS[id].status]_storeVars

\* C4: the status a poller sees only moves forward along
\* pending -> processing -> terminal; no step of the store moves it back.
C4_StatusMonotone ==
    [][\A id \in StoreIds :
         Kept(id) => Rank(JOBS'[id].status) >= Rank(JOBS[id].status)]_storeVars

\* C6: Cancel on a job that is already terminal is a no-op: it leaves the
\* job's status, result and logs as they were.
C6_CancelTerminalNoOp ==
    [][\A id \in StoreIds :
         (id \in DOMAIN JOBS /\ JOBS[id].status \in Terminal /\ cancel_job(id))
            => /\ JOBS'[id].status = JOBS[id].status
               /\ JOBS'[id].result = JOBS[id].result
               /\ JOBS'[id].logs = JOBS[id].logs]_storeVars

\* C7: once a job is terminal, AppendLog, UpdateProgress, SetStatus and
\* update_job_result leave its status, progress, logs and result unchanged.
C7_TerminalFrozen ==
    [][\A id \in StoreIds :
         (/\ id \in DOMAIN JOBS
          /\ JOBS[id].status \in Terminal
          /\ \/ \E m \in Messages : update_job_log(id, m)
             \/ \E f \in OptFiles, p \in OptCounts, t \in OptCounts :
                    update_job_progress(id, f, p, t)
             \/ \E s \in Statuses : update_job_status(id, s)
             \/ \E r \in Results : update_job_result(id, ResultDict(r)))
            => /\ JOBS'[id].status = JOBS[id].status
               /\ JOBS'[id].progress = JOBS[id].progress
               /\ JOBS'[id].logs = JOBS[id].logs
               /\ JOBS'[id].result = JOBS[id].result]_storeVars

\* C8: the result is written at most once and only by the terminal
\* transition: a step that writes a result finds the result empty and the job
\* not yet terminal, and leaves the job completed or failed.
C8_ResultWrittenOnce ==
    [][\A id \in StoreIds :
         (Kept(id) /\ JOBS'[id].result # JOBS[id].result /\ JOBS'[id].result # EmptyDict)
            => /\ JOBS[id].result = EmptyDict
               /\ JOBS[id].status \notin Terminal
               /\ JOBS'[id].status \in {"completed", "failed"}]_storeVars

\* C9: a job carries a non-empty result only while its status is completed
\* or failed.
C9_ResultOnlyWhenDone ==
    \A id \in DOMAIN JOBS :
        JOBS[id].result # EmptyDict => JOBS[id].status \in {"completed", "failed"}

(***************************************************************************)
(* Claims about the runs (ide_router.py, orchestrator.py), checked under   *)
(* SpecRun.                                                                *)
(***************************************************************************)
\* The run is suspended inside its analysis.
UnifiedRunning == fn = "unified" /\ pc \in {"graph", "await_ai", "await_sonar", "fixes"}

\* C1: in the unified analysis run, once Cancel has been applied to the job
\* while the run is in progress, the job's status stays cancelled and the run
\* writes neither the result nor the progress fields any more.
C1_UnifiedCancelHonoured ==
    [][(UnifiedRunning /\ RJOBS[JobId].status = "cancelled")
          => /\ RJOBS'[JobId].status = "cancelled"
             /\ RJOBS'[JobId].result = RJOBS[JobId].result
             /\ RJOBS'[JobId].progress = RJOBS[JobId].progress]_vars

RepoSuspended ==
    fn = "repo" /\ pc \in {"setup", "git", "sonar", "walkthrough", "stage_a", "llm"}

\* C2: in process_repo_job, once Cancel has been applied while the run is
\* suspended at any of its awaits (extraction, git init, Sonar call,
\* walkthrough, Stage A, per-issue fix), no later step of the run sets the
\* status to completed or failed or writes the result.
C2_RepoCancelHonoured ==
    [][(RepoSuspended /\ RJOBS[JobId].status = "cancelled")
          => /\ RJOBS'[JobId].status = "cancelled"
             /\ RJOBS'[JobId].result = RJOBS[JobId].result]_vars

\* C5: a job cancelled while still pending (created, its background run not
\* yet started) never enters processing: the run that starts does not
\* overwrite cancelled and performs no analysis.
C5_PendingCancelHonoured ==
    [][(pc = "scheduled" /\ RJOBS[JobId].status = "cancelled")
          => /\ RJOBS'[JobId].status # "processing"
             /\ pc' \in {"scheduled", "done"}]_vars

\* The identity of a finding: every field but the fix, which the backfill
\* pass may fill in.
SansFix(f) == [f EXCEPT !.fix = None]
SameFindings(a, b) ==
    /\ Len(a) = Len(b)
    /\ \A x \in {SansFix(a[i]) : i \in 1..Len(a)} :
          Cardinality({i \in 1..Len(a) : SansFix(a[i]) = x})
            = Cardinality({i \in 1..Len(b) : SansFix(b[i]) = x})

Failed(outcome) == outcome \in {"exception", "timeout"}

FanOutStarted ==
    /\ fn = "unified"
    /\ pc \in {"graph", "await_ai", "await_sonar", "fixes", "done"}
    /\ orch.ai_task # "none"

\* C11: failure of the branches never fails the job.  Once the two tasks are
\* created, no step of the run sets the status failed, whatever the outcomes
\* of the branches (success, exception, timeout, both failing), and the step
\* that ends the run stores completed; a failed job of the unified run is
\* one whose fan-out never started.
C11_FanOutNeverFails ==
    /\ []((fn = "unified" /\ JobId \in DOMAIN RJOBS /\ RJOBS[JobId].status = "failed")
            => ~FanOutStarted)
    /\ [][(FanOutStarted /\ pc # "done")
            => /\ RJOBS'[JobId].status # "failed"
               /\ pc' \in {"await_ai", "await_sonar", "fixes", "done"}
               /\ pc' = "done" => RJOBS'[JobId].status = "completed"]_vars

\* C11 witness: a run that completed after the semantic branch timed out and
\* the static branch raised.
C11_Witness ==
    /\ fn = "unified" /\ pc = "done"
    /\ orch.ai_outcome = "timeout"
    /\ orch.sonar_outcome = "exception"
    /\ RJOBS[JobId].status = "completed"
    /\ RJOBS[JobId].result[1].findings = <<>>

Terminated(task) == task \in {"done", "cancelled"}

\* C12: fork and join.  Whenever the run waits for a branch, both tasks have
\* been created; the merge (the step that leaves the wait for the static
\* branch) happens only when both tasks have terminated; and a branch that
\* finishes, fails or times out while the other is running leaves the other
\* task as it is: a task is cancelled only by its own timeout.
C12_ForkJoin ==
    /\ []((fn = "unified" /\ pc \in {"await_ai", "await_sonar"})
            => (orch.ai_task # "none" /\ orch.sonar_task # "none"))
    /\ [][(fn = "unified" /\ pc \in {"await_ai", "await_sonar"})
            => /\ pc' \in {"fixes", "done"}
                    => (Terminated(orch'.ai_task) /\ Terminated(orch'.sonar_task))
               /\ pc' \in {"await_ai", "await_sonar"}
                    => (orch'.unique_findings = <<>> /\ orch'.result = None)
               /\ orch'.ai_task # orch.ai_task => orch'.sonar_task = orch.sonar_task
               /\ (orch'.sonar_task # orch.sonar_task /\ pc' \in {"await_ai", "await_sonar"})
                    => orch'.ai_task = orch.ai_task
               /\ (orch'.sonar_task = "cancelled" /\ orch.sonar_task # "cancelled")
                    => (pc = "await_sonar" /\ Terminated(orch.ai_task))]_vars

\* C12 witness: the semantic branch has timed out, the static branch is still
\* running, and nothing has been merged.
C12_Witness ==
    /\ fn = "unified" /\ pc = "await_sonar"
    /\ orch.ai_outcome = "timeout" /\ orch.ai_task = "cancelled"
    /\ orch.sonar_task = "running"
    /\ orch.unique_findings = <<>> /\ orch.result = None

\* The texts the orchestrator gives its process logger when a branch fails
\* (orchestrator.py:195-204, 250, 385).
BranchErrorTexts(analyzer) ==
    IF analyzer = "ai"
    THEN {"[Orchestrator] AI review timed out", "[Orchestrator] AI review failed",
          "AI review error"}
    ELSE {"[Orchestrator] Sonar scan timed out", "[Orchestrator] Sonar scan failed",
          "Sonar scan error"}

ErrorRecorded(analyzer) ==
    LET job == RJOBS[JobId]
    IN  /\ \E i \in 1..Len(job.logs) : job.logs[i] \in BranchErrorTexts(analyzer)
        /\ job.result # None
        /\ \/ "errors" \in DOMAIN job.result[1]
           \/ "errors" \in DOMAIN job.result[1].summary
           \/ "error" \in DOMAIN job.result[1].summary

\* C13: non-silent degradation.  When a unified run has ended after a branch
\* raised or timed out, the job's logs in the job store contain the error text
\* of that branch and the stored result carries an error entry for it.
C13_BranchErrorRecorded ==
    (FanOutStarted /\ pc = "done")
        => /\ Failed(orch.ai_outcome) => ErrorRecorded("ai")
           /\ Failed(orch.sonar_outcome) => ErrorRecorded("sonar")

\* The groups deduplicate_findings works on: the positions of the input list
\* that carry the key of finding f, and the output of the call.
Group(f) == {j \in 1..Len(call.args) : DedupKey(call.args[j]) = DedupKey(f)}
Deduplicated == call.fn = "deduplicate_findings"
Output == call.ret[1]

\* What deduplicate_findings never writes: every field but also_found_by and fix.
Original(f) == [f EXCEPT !.also_found_by = <<>>, !.fix = None]

\* C14: one survivor per key.  The output of deduplicate_findings has exactly
\* the dedup keys of the input, each of them once, and every output finding
\* is an input finding of its key (the record dedup received, with only
\* also_found_by and fix updated).
C14_OnePerKey ==
    Deduplicated
        => /\ {DedupKey(Output[i]) : i \in 1..Len(Output)}
                = {DedupKey(call.args[j]) : j \in 1..Len(call.args)}
           /\ \A i, k \in 1..Len(Output) :
                 DedupKey(Output[i]) = DedupKey(Output[k]) => i = k
           /\ \A i \in 1..Len(Output) :
                 \E j \in Group(Output[i]) : Original(Output[i]) = Original(call.args[j])

\* C14 witness: three findings, two of which share a key, gave two findings.
C14_Witness ==
    /\ Deduplicated
    /\ Len(call.args) = 3
    /\ Len(Output) = 2
    /\ \E i \in 1..2 : Cardinality(Group(Output[i])) = 2

Elems(seq) == {seq[i] : i \in 1..Len(seq)}

\* C15: every loser is recorded.  For every output finding of
\* deduplicate_findings, the source of every other input finding of its key
\* is in its also_found_by; stated for the losers that come from another
\* analyzer than the survivor, the least the claim asks for.
C15_LosersRecorded ==
    Deduplicated
        => \A i \in 1..Len(Output) :
             \A j \in Group(Output[i]) :
                (call.args[j].id # Output[i].id /\ call.args[j].source # Output[i].source)
                    => call.args[j].source \in Elems(Output[i].also_found_by)

MaxConfidence(G) ==
    CHOOSE c \in {call.args[j].confidence : j \in G} :
        \A j \in G : call.args[j].confidence <= c
First(S) == CHOOSE j \in S : \A k \in S : j <= k

\* C16: the survivor.  For every output finding of deduplicate_findings, it
\* is the earliest finding of the input, among the findings of its key, that
\* has the highest confidence of those findings: higher confidence wins
\* whatever the order, and on equal confidence the first one seen is kept.
C16_EarliestOfMaxConfidence ==
    Deduplicated
        => \A i \in 1..Len(Output) :
             LET G == Group(Output[i])
                 best == {j \in G : call.args[j].confidence = MaxConfidence(G)}
             IN  Original(Output[i]) = Original(call.args[First(best)])

\* C16 witness: the static finding (0.95) came after a semantic one (0.75)
\* and before another static one (0.95) of the same key, and is the survivor.
C16_Witness ==
    /\ Deduplicated
    /\ call.args = <<FA1, FS1, FS3>>
    /\ Len(Output) = 1
    /\ Output[1].id = FS1.id

\* C17: fixes are preserved.  For every output finding of
\* deduplicate_findings, it has a fix exactly when some input finding of its
\* key had one, and when the surviving finding had a fix of its own the
\* output carries that fix.
C17_FixPreserved ==
    Deduplicated
        => \A i \in 1..Len(Output) :
             LET G == Group(Output[i])
             IN  /\ Output[i].fix # None <=> \E j \in G : call.args[j].fix # None
                 /\ \A j \in G :
                       (call.args[j].id = Output[i].id /\ call.args[j].fix # None)
                           => Output[i].fix = call.args[j].fix

\* C17 witness: a finding without a fix replaced twice; the fix of the first
\* finding reached the survivor, which had none.
C17_Witness ==
    /\ Deduplicated
    /\ call.args = <<FA2, FS1, FA5>>
    /\ Len(Output) = 1
    /\ Output[1].id = FA5.id
    /\ Output[1].fix = FA2.fix

\* C18: also_found_by is a set of other sources.  For every output finding of
\* deduplicate_findings, also_found_by does not contain the finding's own
\* source, contains no source twice, and is empty when no other input finding
\* had the finding's key.
C18_OtherSourcesOnly ==
    Deduplicated
        => \A i \in 1..Len(Output) :
             LET also == Output[i].also_found_by
             IN  /\ Output[i].source \notin Elems(also)
                 /\ \A a, b \in 1..Len(also) : also[a] = also[b] => a = b
                 /\ Cardinality(Group(Output[i])) = 1 => also = <<>>

Gated == call.fn = "determine_quality_gate"
Blocking(f) == f.severity = "critical" \/ f.category = "security"
HighCount(findings) ==
    Cardinality({i \in 1..Len(findings) : findings[i].severity = "high"})

C20_StoredGate ==
    (fn = "unified" /\ pc = "done" /\ RJOBS[JobId].status = "completed")
        => LET result == RJOBS[JobId].result[1]
           IN  /\ result.quality_gate \in {"passed", "warning", "failed"}
               /\ result.quality_gate = determine_quality_gate(result.findings)
               /\ result.summary.quality_gate = result.quality_gate

Summarized == call.fn = "create_summary"

RECURSIVE SumOver(_, _)
SumOver(counts, keys) ==
    IF keys = {} THEN 0
    ELSE LET k == CHOOSE x \in keys : TRUE
         IN  counts[k] + SumOver(counts, keys \ {k})
Total(counts) == SumOver(counts, DOMAIN counts)

\* C21: the summary counts.  create_summary returns total equal to the length
\* of the list, with_fix equal to the number of findings that have a fix (at
\* most total), and by_source, by_severity and by_category whose counts each
\* add up to total and are all positive.
C21_SummaryCounts ==
    Summarized
        => LET summary == call.ret[1]
               n == Len(call.args)
           IN  /\ summary.total = n
               /\ summary.with_fix = Cardinality({i \in 1..n : call.args[i].fix # None})
               /\ summary.with_fix <= summary.total
               /\ \A counts \in {summary.by_source, summary.by_severity, summary.by_category} :
                     /\ Total(counts) = n
                     /\ \A k \in DOMAIN counts : counts[k] > 0

\* C21 witness: three findings, some with a fix and some without, of two
\* sources and more than one severity.
C21_Witness ==
    /\ Summarized
    /\ call.ret[1].total = 3
    /\ call.ret[1].with_fix \in 1..2
    /\ Cardinality(DOMAIN call.ret[1].by_source) = 2
    /\ Cardinality(DOMAIN call.ret[1].by_severity) > 1

NormalizedSonar == call.fn = "sonar_response_to_unified"

\* The lookup tables as the specification gives them.
StaticCategory(type) ==
    IF type \in {"VULNERABILITY", "SECURITY_HOTSPOT"} THEN "security"
    ELSE IF type = "CODE_SMELL" THEN "maintainability"
    ELSE "bug"
StaticSeverity(severity) ==
    IF severity \in {"BLOCKER", "CRITICAL"} THEN "critical"
    ELSE IF severity = "MAJOR" THEN "high"
    ELSE IF severity = "MINOR" THEN "medium"
    ELSE IF severity = "INFO" THEN "low"
    ELSE "medium"

\* C22: the static normalizer.  A raw issue of the scanner that is converted
\* alone gives one finding whose category and severity are the table values
\* of its type and severity (bug and medium for a value in no table), whose
\* file is the component without the project prefix, whose rule id is the
\* issue's rule and whose confidence is 0.95; and when its type is
\* VULNERABILITY or its severity BLOCKER, dedup and summary of that one
\* finding give the quality gate "failed".
C22_StaticNormalizer ==
    (NormalizedSonar /\ call.args.issues \in {<<i>> : i \in RawSonarIssues})
        => LET issue == call.args.issues[1]
               finding == call.ret[1][1]
               gate == create_summary(deduplicate_findings(call.ret[1])).quality_gate
           IN  /\ Len(call.ret[1]) = 1
               /\ "type" \in DOMAIN issue => finding.category = StaticCategory(issue.type)
               /\ "severity" \in DOMAIN issue
                     => finding.severity = StaticSeverity(issue.severity)
               /\ finding.file = "src/a.py"
               /\ finding.start_line = issue.line
               /\ finding.sonar_rule_id = Some(issue.rule)
               /\ finding.confidence = 95
               /\ finding.source = "sonar"
               /\ ("type" \in DOMAIN issue /\ issue.type = "VULNERABILITY") => gate = "failed"
               /\ ("severity" \in DOMAIN issue /\ issue.severity = "BLOCKER")
                     => gate = "failed"

\* C22 witness: the issue {component "proj:src/a.py", line 10, rule S6334,
\* severity BLOCKER, type VULNERABILITY} gave a critical security finding.
C22_Witness ==
    /\ NormalizedSonar
    /\ call.args.issues = <<SonarIssue("S6334", "BLOCKER", <<"proj", "src/a.py">>, 10,
                                <<"s", "e", "c", "r", "e", "t">>, "VULNERABILITY")>>
    /\ call.ret[1][1].category = "security"
    /\ call.ret[1][1].severity = "critical"
    /\ call.ret[1][1].file = "src/a.py"
    /\ create_summary(deduplicate_findings(call.ret[1])).quality_gate = "failed"

Normalized == call.fn \in {"sonar_response_to_unified", "ai_response_to_unified"}
Batch == call.args.issues
Converted == call.ret[1]

\* C23: missing fields.  A raw issue without a type that is converted alone,
\* by either normalizer, is skipped or becomes a finding of category bug; a
\* raw issue without a severity is skipped or becomes a finding of severity
\* medium.
C23_MissingFieldFallback ==
    (Normalized /\ Len(Batch) = 1)
        => /\ DOMAIN Batch[1] \cap {"type", "issue_type", "issue_header"} = {}
                => (Converted = <<>> \/ Converted[1].category = "bug")
           /\ "severity" \notin DOMAIN Batch[1]
                => (Converted = <<>> \/ Converted[1].severity = "medium")

\* C24: ids are unique.  The findings that remain when the output of a
\* normalizer is deduplicated have pairwise distinct ids.
C24_DistinctIds ==
    (Normalized /\ ~DedupRaises(Converted))
        => LET final == deduplicate_findings(Converted)
           IN  \A i, j \in 1..Len(final) : final[i].id = final[j].id => i = j

\* The issues whose values have the JSON types of the analyzers' formats.
WellFormed(issue) ==
    /\ Get(issue, "message", <<>>) # JsonNumber
    /\ Get(issue, "title", <<>>) # JsonNumber
    /\ Get(issue, "component", <<"">>) # JsonArray
    /\ Get(issue, "file", "") # ListValue

\* C25: malformed issues.  The output of a normalizer is the findings of the
\* well-formed issues of the batch, in input order: as many findings as
\* well-formed issues, none of them built from a malformed issue.
C25_MalformedSkipped ==
    Normalized
        => LET good == SelectSeq(Batch, WellFormed)
           IN  /\ Len(Converted) = Len(good)
               /\ \A i \in 1..Len(Converted) : Hashable(Converted[i])
               /\ Converted = IF call.args.analyzer = "sonar"
                               THEN sonar_response_to_unified(good)
                               ELSE ai_response_to_unified(good)

\* C26: the fix pass survives a failed generation.  Every call of the pass
\* handles the next finding that lacks a fix, whatever the calls before it
\* gave; a call that gives no fix leaves its finding without one and the
\* other findings as they are; the pass ends only after the last finding was
\* tried, and the run then stores its result and is completed.
C26_FixPassContinues ==
    /\ []((fn = "unified" /\ pc = "fixes") => orch.fix_i < Len(orch.needs_fix))
    /\ [][(fn = "unified" /\ pc = "fixes" /\ orch' # orch)
            => LET i == orch.fix_i + 1
               IN  /\ orch'.fix_i = i
                   /\ orch'.needs_fix[i].fix \in {None, BackfilledFix}
                   /\ \A k \in 1..Len(orch.needs_fix) :
                         k # i => orch'.needs_fix[k] = orch.needs_fix[k]
                   /\ orch'.has_fix = orch.has_fix
                   /\ pc' = IF i = Len(orch.needs_fix) THEN "done" ELSE "fixes"
                   /\ pc' = "done"
                         => /\ RJOBS'[JobId].status = "completed"
                            /\ RJOBS'[JobId].result[1].findings
                                  = orch'.has_fix \o orch'.needs_fix]_vars

\* C26 witness: the generation failed for the first finding, succeeded for
\* the second, and the run is completed with both findings.
C26_Witness ==
    /\ fn = "unified" /\ pc = "done"
    /\ Len(orch.needs_fix) = 2 /\ orch.fix_i = 2
    /\ orch.needs_fix[1].fix = None
    /\ orch.needs_fix[2].fix = BackfilledFix
    /\ RJOBS[JobId].status = "completed"
    /\ Len(RJOBS[JobId].result[1].findings) = 2

InRange(progress) ==
    "percentage" \in DOMAIN progress => progress.percentage \in 0..100

\* C27: the percentage stays in range.  In every state, the percentage of
\* every job of the job manager and of the router's job store is an integer
\* from 0 to 100.
C27_PercentageInRange ==
    /\ \A id \in DOMAIN JOBS : InRange(JOBS[id].progress)
    /\ \A id \in DOMAIN RJOBS : InRange(RJOBS[id].progress)

\* C28: a failed job carries its error.  In every state, every job whose
\* status is failed has a result with an error entry, in the job manager and
\* in the router's job store.
C28_FailedHasError ==
    /\ \A id \in DOMAIN JOBS :
          JOBS[id].status = "failed" => "error" \in DOMAIN JOBS[id].result
    /\ \A id \in DOMAIN RJOBS :
          RJOBS[id].status = "failed"
              => (RJOBS[id].result # None /\ "error" \in DOMAIN RJOBS[id].result[1])

SummaryKeys == {"total", "with_fix", "by_source", "by_severity", "by_category", "quality_gate"}

\* C29: a completed job carries a full result.  In every state of a unified
\* run, a completed job has a result with a findings list and a summary that
\* holds total, with_fix, by_source, by_severity, by_category and
\* quality_gate.
C29_CompletedHasFullResult ==
    (fn = "unified" /\ JobId \in DOMAIN RJOBS /\ RJOBS[JobId].status = "completed")
        => /\ RJOBS[JobId].result # None
           /\ {"findings", "summary"} \subseteq DOMAIN RJOBS[JobId].result[1]
           /\ SummaryKeys \subseteq DOMAIN RJOBS[JobId].result[1].summary

\* The job has left the program: its run has ended, was never scheduled, or
\* its upload was rejected.
Exited == pc \in {"done", "unscheduled", "rejected"}

\* C30: the workspace is removed.  Whenever a job for which a workspace
\* directory was created has left the program, on any exit path, the
\* directory has been deleted.
C30_WorkspaceRemoved == Exited => workspace # "present"

(***************************************************************************)
(* Claims about the store holding several jobs, checked under SpecJobs.    *)
(***************************************************************************)
\* The operation just called, and whether the job id it was given is absent
\* from the store it works on.
JustCalled(o) == call.fn = "none" /\ call'.fn = o
OnAbsentJob ==
    \/ \E o \in KeyedOps : JustCalled(o) /\ call.args.job_id \notin DOMAIN JOBS
    \/ \E o \in RouteOps : JustCalled(o) /\ call.args.job_id \notin DOMAIN RJOBS

\* The value each operation returns for a job it does not find.
NotFound(o) ==
    CASE o = "get_job" -> None
      [] o \in RouteOps -> [status |-> "not_found"]
      [] OTHER -> FALSE

\* C31: an operation on an absent job is a no-op.  Every job-store operation
\* called with a job id that is not in the store returns its not-found value
\* (None, False or {status: not_found}) and leaves both stores as they were:
\* no job is created and no other job is modified.
C31_AbsentJobNoOp ==
    [][OnAbsentJob =>
        /\ call'.ret = <<NotFound(call'.fn)>>
        /\ JOBS' = JOBS
        /\ RJOBS' = RJOBS]_vars

\* fail_job was called for a job the store does not hold while it holds others.
C31_Witness ==
    /\ call.fn = "fail_job"
    /\ call.args.job_id \notin DOMAIN JOBS
    /\ DOMAIN JOBS = JobIds
    /\ call.ret = <<FALSE>>


\* The jobs of the store whose created_at is a timestamp more than
\* max_age_hours in the past.
Dated(job) == "created_at" \in DOMAIN job /\ Len(job.created_at) = 1
Expired(max_age_hours) ==
    {id \in DOMAIN JOBS :
        Dated(JOBS[id]) /\ now - JOBS[id].created_at[1] > max_age_hours}

\* C32: cleanup removes exactly the expired jobs.  cleanup_old_jobs(maxAge)
\* deletes the jobs whose created_at is strictly older than now minus maxAge
\* and no other (a job without a created_at, or with one that does not parse,
\* stays), returns how many it deleted, and leaves every remaining record as
\* it was.
C32_CleanupExact ==
    [][JustCalled("cleanup_old_jobs") =>
        /\ DOMAIN JOBS' = (DOMAIN JOBS) \ Expired(call.args.max_age_hours)
        /\ call'.ret = <<Cardinality(Expired(call.args.max_age_hours))>>
        /\ \A id \in DOMAIN JOBS' : JOBS'[id] = JOBS[id]]_vars

\* A cleanup deleted one job and kept another, which has no usable created_at.
C32_Witness ==
    /\ call.fn = "cleanup_old_jobs"
    /\ call.ret = <<1>>
    /\ \E id \in DOMAIN JOBS : ~Dated(JOBS[id])

\* C38: cleanup spares the jobs in progress.  cleanup_old_jobs deletes only
\* jobs in a terminal status: a job that is pending or processing when the
\* cleanup runs is still in the store afterwards, so its run finds the record
\* when it next writes to it.
C38_CleanupSparesActive ==
    [][JustCalled("cleanup_old_jobs") =>
        \A id \in DOMAIN JOBS :
            JOBS[id].status \in {"pending", "processing"} => id \in DOMAIN JOBS']_vars


(***************************************************************************)
(* Claims about the fix pass of a unified run, checked under SpecRun.      *)
(***************************************************************************)
\* The orchestrator of the run exists; the fix-generation calls it has made;
\* the findings of the deduplicated list that came without a fix.
Orchestrating == fn = "unified" /\ "fix_i" \in DOMAIN orch
FixCalls == orch.fix_i
Lacking == {k \in 1..Len(orch.unique_findings) : orch.unique_findings[k].fix = None}
FixCall == fn = "unified" /\ pc = "fixes" /\ orch' # orch

\* Every call of the pass is made for a finding that has no fix yet, and when
\* the run has ended without analyze raising, the calls are as many as the
\* findings that lacked a fix.
OneCallPerLackingFinding ==
    /\ [][FixCall => orch.needs_fix[orch.fix_i + 1].fix = None]_vars
    /\ []((Orchestrating /\ pc = "done" /\ ~orch.raised)
            => FixCalls = Cardinality(Lacking))

\* A budget set for the run, whatever the analyzers return, is smaller than
\* the number of findings one analyzer can return.
FixBudget == MaxFindings - 1

\* C33: the fix pass makes one call per finding lacking a fix, within a
\* budget.  In a run, one fix-generation call is made for each finding of the
\* deduplicated list that lacks a fix and none for a finding that has one,
\* and the calls of the run never exceed the per-run budget.
C33_FixCallsBudgeted ==
    /\ OneCallPerLackingFinding
    /\ [](Orchestrating => FixCalls <= FixBudget)


(***************************************************************************)
(* Claims about the fixes of the findings.                                 *)
(***************************************************************************)
\* C34: a fix has code.  Every fix attached to a finding of the final list,
\* here the deduplicated output of the semantic normalizer, whose findings
\* with a fix the fix pass hands on as they are, has a non-empty fixed_code.
C34_FixHasCode ==
    (call.fn = "ai_response_to_unified" /\ ~DedupRaises(Converted))
        => LET final == deduplicate_findings(Converted)
           IN  \A i \in 1..Len(final) :
                   final[i].fix # None => final[i].fix[1].fixed_code # ""


\* The fix pass of the run is over: analyze has returned its result.
FixPassOver == Orchestrating /\ pc = "done" /\ ~orch.raised /\ orch.result # None
PassInput == orch.unique_findings
PassOutput == orch.result[1].findings

\* C35: the fix pass preserves the findings.  The list analyze returns holds
\* the findings of the deduplicated list, each once and none else, equal to
\* their originals in every field but fix; and a finding that came with a fix
\* is returned with that fix.
C35_FixPassPreserves ==
    FixPassOver
        => /\ SameFindings(PassInput, PassOutput)
           /\ \A i \in 1..Len(PassInput) :
                  PassInput[i].fix # None
                      => \E j \in 1..Len(PassOutput) : PassOutput[j] = PassInput[i]

\* A pass over a list that held a finding with a fix and one without, for
\* which a fix was generated.
C35_Witness ==
    /\ FixPassOver
    /\ \E i \in 1..Len(PassInput) : PassInput[i].fix # None
    /\ \E i \in 1..Len(PassInput) :
          /\ PassInput[i].fix = None
          /\ \E j \in 1..Len(PassOutput) :
                PassOutput[j] = [PassInput[i] EXCEPT !.fix = BackfilledFix]


(***************************************************************************)
(* Claims about the timeouts of the two branches, checked under SpecWait.  *)
(***************************************************************************)
\* C36: each branch has its own budget, counted from its launch.  The static
\* task is never still running once SONAR_TIMEOUT_SECONDS have passed since
\* the tasks were created, however long the semantic task takes; the wait for
\* the static task ends at that instant at the latest; and the semantic
\* budget is the larger of the two.
C36_OwnBudgetFromLaunch ==
    /\ AI_REVIEW_TIMEOUT_SECONDS > SONAR_TIMEOUT_SECONDS
    /\ fn = "parallel"
        => /\ orch.sonar_task = "running"
                => now <= orch.launched + SONAR_TIMEOUT_SECONDS
           /\ pc = "await_sonar"
                => orch.wait_deadline <= orch.launched + SONAR_TIMEOUT_SECONDS

\* The static task never outlives the total timeout of its request.
StaticEndsWithRequest ==
    (fn = "parallel" /\ orch.sonar_task = "running") => now <= orch.post_deadline


(***************************************************************************)
(* Claims about the end of a run, checked under SpecRepoLive.              *)
(***************************************************************************)
\* C37: every job ends.  A job that has been created eventually has a
\* terminal status (completed, failed or cancelled), given that the run's
\* steps are taken and the calls it awaits end; this includes a job whose
\* background task could not be scheduled.
C37_EventuallyTerminal ==
    (JobId \in DOMAIN RJOBS)
        ~> (JobId \in DOMAIN RJOBS /\ RJOBS[JobId].status \in Terminal)

====
